---- MODULE Spec2Model ----
(***************************************************************************)
(* Battery tester host: the serial framing protocol (DeviceProtocol) and   *)
(* the transfer orchestration (DeviceManager).                             *)
(*                                                                         *)
(* The host runs on one thread.  Every wait of the protocol pumps the Qt   *)
(* event loop (QCoreApplication::processEvents), so a host call made by    *)
(* the UI can be delivered while an operation is inside a wait: it runs    *)
(* to completion on top of the suspended operation.  The model keeps the   *)
(* suspended operations as a stack of frames; all steps act on the top     *)
(* frame.                                                                  *)
(*                                                                         *)
(* Time is in milliseconds.  A stretch in which no byte arrives and no     *)
(* event is delivered consists of identical poll iterations; the model     *)
(* takes such a stretch in one step, and lets traffic arrive at the start  *)
(* of a wait or during its last poll.                                      *)
(***************************************************************************)
EXTENDS Integers, Sequences, FiniteSets, TLC

VARIABLES
    portOpen,       \* m_serialPort->isOpen()
    rx,             \* bytes the serial port holds for reading
    tx,             \* packets written to the port since it was opened
    serialError,    \* m_serialPort->error() is a hard error (not NoError/Timeout)
    m_isConnected,  \* DeviceManager::m_isConnected
    m_progress,     \* DeviceManager::m_progress
    m_status,       \* DeviceManager::m_status
    events,         \* signals the manager emitted since the outermost call began
    disk,           \* files in the output directory: set of <<name, bytes>>
    now,            \* the clock, ms since the outermost call began
    stack,          \* frames of the operations in progress, innermost last
    lastRet,        \* how the most recent host call that returned ended
    call,           \* the most recent host call: its name and arguments
    ioTouched,      \* a transport primitive was invoked since the latest host call began
    dev,            \* the device on the other end of the line
    faultsLeft,     \* irregularities the session may still see
    latesLeft,      \* packets the device may still send late into a wait
    callsLeft,      \* host calls the UI may still make
    depthLimit,     \* how many operations the UI lets nest in this session
    codec,          \* a frame on its way through the codec (codec specification)
    tick            \* parity of the steps the host's thread took in the session's
                    \* operation (its scheduling is stated on it)

vars == <<portOpen, rx, tx, serialError, m_isConnected, m_progress, m_status,
          events, disk, now, stack, lastRet, call, ioTouched, dev, faultsLeft,
          latesLeft, callsLeft, depthLimit, codec, tick>>

---------------------------------------------------------------------------
\* Protocol constants (deviceprotocol.h)

USB_PROTO_MAGIC == 43605
USB_PROTO_CMD_HANDSHAKE == 1
USB_PROTO_CMD_FILE_LIST == 2
USB_PROTO_CMD_FILE_DATA == 3
USB_PROTO_CMD_FILE_END == 4
USB_PROTO_CMD_ACK == 5
USB_PROTO_CMD_NACK == 6
USB_PROTO_CMD_CONFIG_REQ == 7
USB_CHUNK_SIZE == 512
USB_TIMEOUT_MS == 30000

\* Literals of deviceprotocol.cpp
HEADER_SIZE == 6
NAME_SIZE == 64
HANDSHAKE_POLL_MS == 100
READY_READ_MS == 50
ACK_WAIT_MS == 10000

---------------------------------------------------------------------------
\* Bounds of the model

MaxHostCalls == 2     \* host calls per session
MaxFaults == 1        \* irregularities per session: a malformed packet, a broken
                      \* line, the wrong transfer, a call inside an operation
MaxLate == 1          \* packets the device sends late into a wait per session
MaxDepth == 2         \* nested operations in the re-entrant specification
DevFileCount == 2     \* files the device offers
DevChunk == 2         \* data bytes per chunk the device sends
MaxDevAcks == 2       \* Ack headers the device sends per upload
MaxChunks == 2        \* full chunks in the files that the chunking is checked on
MaxPayload == 2       \* bytes of the short payloads the codec is checked on

---------------------------------------------------------------------------
\* Bytes


RECURSIVE Xor(_, _)
Xor(a, b) ==
    IF a = 0 /\ b = 0 THEN 0
    ELSE (((a % 2) + (b % 2)) % 2) + (2 * Xor(a \div 2, b \div 2))

\* XOR of data[lo..hi], by halves
RECURSIVE XorRange(_, _, _)
XorRange(data, lo, hi) ==
    IF lo > hi THEN 0
    ELSE IF lo = hi THEN data[lo]
    ELSE LET mid == (lo + hi) \div 2
         IN  Xor(XorRange(data, lo, mid), XorRange(data, mid + 1, hi))

\* checksum ^= byte, over all bytes of data
calculateChecksum(data) == XorRange(data, 1, Len(data))

Min(a, b) == IF a < b THEN a ELSE b
Max(a, b) == IF a > b THEN a ELSE b

\* QByteArray::left / QByteArray::mid
Left(data, n) == SubSeq(data, 1, Min(n, Len(data)))
Mid(data, pos, n) == SubSeq(data, pos + 1, Min(pos + n, Len(data)))

Zeros(n) == [k \in 1..n |-> 0]

LE16(v) == <<v % 256, (v \div 256) % 256>>
LE32(v) == <<v % 256, (v \div 256) % 256, (v \div 65536) % 256, (v \div 16777216) % 256>>

\* QDataStream (little-endian) reading an n-byte unsigned at offset pos: a read
\* past the end of the data yields 0.
RECURSIVE LittleEndian(_, _, _)
LittleEndian(data, pos, n) ==
    IF n = 0 THEN 0
    ELSE data[pos + 1] + (256 * LittleEndian(data, pos + 1, n - 1))

StreamU(data, pos, n) ==
    IF Len(data) < pos + n THEN 0 ELSE LittleEndian(data, pos, n)

\* QByteArray::indexOf('\0'): index (0-based) of the first zero byte, or -1
IndexOfNull(data) ==
    IF \E k \in 1..Len(data) : data[k] = 0
    THEN (CHOOSE k \in 1..Len(data) : data[k] = 0 /\ \A j \in 1..(k - 1) : data[j] # 0) - 1
    ELSE -1

\* QString::lastIndexOf('/'): index (0-based) of the last '/' (47), or -1
LastSlash(name) ==
    IF \E k \in 1..Len(name) : name[k] = 47
    THEN (CHOOSE k \in 1..Len(name) :
              name[k] = 47 /\ \A j \in (k + 1)..Len(name) : name[j] # 47) - 1
    ELSE -1

\* Variant of FieldToBasename: the path is kept.
FieldToPath(field) ==
    LET nullPos == IndexOfNull(field)
    IN  IF nullPos >= 0 THEN Left(field, nullPos) ELSE field

\* A 64-byte name field to the basename: cut at the first null, then strip the
\* path up to the last '/'.  Names are ASCII, so fromUtf8 keeps the bytes.
FieldToBasename(field) ==
    LET nullPos == IndexOfNull(field)
        text == IF nullPos >= 0 THEN Left(field, nullPos) ELSE field
        lastSlash == LastSlash(text)
    IN  IF lastSlash >= 0 THEN SubSeq(text, lastSlash + 2, Len(text)) ELSE text

---------------------------------------------------------------------------
\* Texts.  A message is its format string, its string argument and its
\* numeric arguments; a status line is a message behind an optional prefix.

Msg(text, str, nums) == [text |-> text, str |-> str, nums |-> nums]
St(text, str, nums) == [prefix |-> "", text |-> text, str |-> str, nums |-> nums]
ErrSt(msg) == [prefix |-> "Error: ", text |-> msg.text, str |-> msg.str, nums |-> msg.nums]
MsgSt(msg) == St(msg.text, msg.str, msg.nums)
NoMsg == Msg("", "", <<>>)
Ev(sig, msg) == [sig |-> sig, msg |-> msg]

---------------------------------------------------------------------------
\* Packets the host builds

\* sendAck / sendNack: magic LE, command, length 0, checksum 0
ControlPacket(command) ==
    <<USB_PROTO_MAGIC % 256, (USB_PROTO_MAGIC \div 256) % 256, command, 0, 0, 0>>

\* Variant of BuildPacket: the length goes out high byte first.
BuildPacketBigEndian(command, payload) ==
    <<USB_PROTO_MAGIC % 256, (USB_PROTO_MAGIC \div 256) % 256, command>>
    \o <<(Len(payload) \div 256) % 256, Len(payload) % 256>>
    \o <<calculateChecksum(payload)>>
    \o payload

\* sendConfigFile: magic LE, command, length LE, checksum, payload
BuildPacket(command, payload) ==
    <<USB_PROTO_MAGIC % 256, (USB_PROTO_MAGIC \div 256) % 256, command>>
    \o LE16(Len(payload) % 65536)
    \o <<calculateChecksum(payload)>>
    \o payload

\* readPacketHeader: the six header bytes to the header fields
NoHeader == [magic |-> 0, command |-> 0, length |-> 0, checksum |-> 0]
ParseHeader(data) ==
    IF Len(data) # HEADER_SIZE THEN NoHeader
    ELSE [magic |-> data[1] + (256 * data[2]),
          command |-> data[3],
          length |-> data[4] + (256 * data[5]),
          checksum |-> data[6]]

\* Variant of isValid: only the low byte of the magic is compared.
isValidLowByte(header) == header.magic % 256 = USB_PROTO_MAGIC % 256

\* PacketHeader::isValid
isValid(header) == header.magic = USB_PROTO_MAGIC

\* QString::number / QString::arg of an int, as ASCII
RECURSIVE Digits(_)
Digits(n) == IF n < 10 THEN <<48 + n>> ELSE Digits(n \div 10) \o <<48 + (n % 10)>>
IntText(n) == IF n < 0 THEN <<45>> \o Digits(0 - n) ELSE Digits(n)

CsvHeaderText == <<99,117,114,114,101,110,116,44,115,97,109,112,108,101,32,114,97,116,101,44,100,117,114,97,116,105,111,110,44,109,105,110,32,116,101,109,112,44,109,97,120,32,116,101,109,112,10>>
\* sendConfigFile: the CSV content of a plan
CsvContent(current, sampleRate, duration, minTemp, maxTemp) ==
    CsvHeaderText \o IntText(current) \o <<44>> \o IntText(sampleRate) \o <<44>>
    \o IntText(duration) \o <<44>> \o IntText(minTemp) \o <<44>> \o IntText(maxTemp)

SettingFilename(planIndex) == <<115,101,116,116,105,110,103,95>> \o IntText(planIndex) \o <<46,99,115,118>>

\* sendConfigFile: file_index(1) + file_size(4, LE) + filename(64, null-padded)
InfoPayload(planIndex, fileSize, filename) ==
    LET filenameBytes == Left(filename, NAME_SIZE)
    IN  <<planIndex % 256>> \o LE32(fileSize) \o filenameBytes
        \o Zeros(NAME_SIZE - Len(filenameBytes))

\* Variant of ChunkPayload: the size field always names a full chunk.
ChunkPayloadFullSize(chunkNumber, chunkData) ==
    LE16(chunkNumber) \o LE16(512) \o chunkData

\* sendConfigFile: chunk_number(2, LE) + chunk_size(2, LE) + data
ChunkPayload(chunkNumber, chunkData) ==
    LE16(chunkNumber) \o LE16(Len(chunkData)) \o chunkData

\* A quint32 read by QDataStream (little-endian) at offset pos, as its top bit
\* and its low 31 bits; a read past the end of the data yields 0.
StreamU32(data, pos) ==
    IF Len(data) < pos + 4 THEN [hi |-> 0, lo |-> 0]
    ELSE [hi |-> data[pos + 4] \div 128,
          lo |-> LittleEndian(data, pos, 3) + (16777216 * (data[pos + 4] % 128))]

\* static_cast<int>(quint32)
ToInt32(v) == IF v.hi = 1 THEN (v.lo - 2147483647) - 1 ELSE v.lo

---------------------------------------------------------------------------
\* The host's state as one record, so that a handler is the composition of
\* the calls it makes.

Cur ==
    [portOpen |-> portOpen, rx |-> rx, tx |-> tx, serialError |-> serialError,
     m_isConnected |-> m_isConnected, m_progress |-> m_progress,
     m_status |-> m_status, events |-> events, disk |-> disk, now |-> now,
     stack |-> stack, lastRet |-> lastRet, ioTouched |-> ioTouched]

Commit(s) ==
    /\ portOpen' = s.portOpen
    /\ rx' = s.rx
    /\ tx' = s.tx
    /\ serialError' = s.serialError
    /\ m_isConnected' = s.m_isConnected
    /\ m_progress' = s.m_progress
    /\ m_status' = s.m_status
    /\ events' = s.events
    /\ disk' = s.disk
    /\ now' = s.now
    /\ stack' = s.stack
    /\ lastRet' = s.lastRet
    /\ ioTouched' = s.ioTouched

NoArgs == <<0, 0, 0, 0, 0, 0>>

\* the device: idle, or at the start of a transfer (fault: the malformed packet
\* it sent last; inOp: its transfer was started during an operation of the
\* host; both read by the properties only)
DevOff == [mode |-> "off", stage |-> "done", fi |-> 0, ck |-> 0, fault |-> "none",
           inOp |-> FALSE]
DevFresh(mode) ==
    [mode |-> mode, stage |-> IF mode = "send" THEN "hs" ELSE "ack", fi |-> 0, ck |-> 0,
     fault |-> "none", inOp |-> FALSE]


NewFrame(op, args, seq, evBase) ==
    [op |-> op, pc |-> "start", args |-> args, seq |-> seq,
     hsStart |-> 0,
     wStart |-> 0, wTimeout |-> 0, wLen |-> 0, wData |-> <<>>, wAbort |-> FALSE,
     header |-> NoHeader,
     fileList |-> <<>>, i |-> 0,
     fileSize |-> [hi |-> 0, lo |-> 0], filename |-> <<>>, fileData |-> <<>>,
     chunkNumber |-> 0,
     totalSent |-> 0,
     \* bookkeeping of the run, read by the properties only
     hsRet |-> FALSE, flCount |-> -1, filesOk |-> 0, acks |-> 0, nacks |-> 0,
     acksRead |-> 0, saved |-> <<>>, chunksOk |-> 0,
     hsElapsed |-> -1, pktRead |-> 0, evBase |-> evBase, cancelAt |-> -1]

Top(s) == s.stack[Len(s.stack)]
SetTop(s, f) == [s EXCEPT !.stack = [@ EXCEPT ![Len(@)] = f]]

---------------------------------------------------------------------------
\* DeviceManager: setters and slots

setStatus(s, status) == [s EXCEPT !.m_status = status]
setConnected(s, connected) == [s EXCEPT !.m_isConnected = connected]
setProgress(s, progress) == [s EXCEPT !.m_progress = progress]

\* emit errorOccurred(error) of the manager
emitError(s, msg) == [s EXCEPT !.events = Append(@, Ev("errorOccurred", msg))]

\* slots connected to the protocol's signals (direct connections)
onProtocolError(s, msg) == emitError(setStatus(s, ErrSt(msg)), msg)
onProtocolStatus(s, msg) == s
onProtocolProgress(s, percentage, bytesReceived, totalBytes) ==
    setStatus(setProgress(s, percentage),
              St("Receiving: %1% (%2/%3 bytes)", "",
                 <<percentage, bytesReceived, totalBytes>>))

---------------------------------------------------------------------------
\* DeviceProtocol: the port

\* closing drops what the port had buffered; the error state of a closed port
\* is not read by anyone, and is cleared here
closePort(s) ==
    IF s.portOpen
    THEN onProtocolStatus([s EXCEPT !.portOpen = FALSE, !.rx = <<>>,
                                    !.serialError = FALSE, !.ioTouched = TRUE],
                          Msg("Disconnected", "", <<>>))
    ELSE s

\* openPort: ok is whether QSerialPort::open succeeds
openPort(s, portName, ok) ==
    LET s1 == [(IF s.portOpen THEN closePort(s) ELSE s) EXCEPT !.ioTouched = TRUE]
    IN  IF ~ok
        THEN onProtocolError(s1, Msg("Failed to open port %1: %2", portName, <<>>))
        ELSE onProtocolStatus([s1 EXCEPT !.portOpen = TRUE, !.rx = <<>>, !.tx = <<>>,
                                         !.serialError = FALSE],
                              Msg("Connected to %1", portName, <<>>))

\* m_serialPort->write(packet)
writePacket(s, packet) ==
    [s EXCEPT !.tx = IF s.portOpen THEN Append(@, packet) ELSE @, !.ioTouched = TRUE]

\* Variant of sendAck: the Ack is written twice.
sendAckTwice(s) ==
    IF ~s.portOpen THEN s
    ELSE SetTop(writePacket(writePacket(s, ControlPacket(USB_PROTO_CMD_ACK)),
                            ControlPacket(USB_PROTO_CMD_ACK)),
                [Top(s) EXCEPT !.acks = @ + 1])

sendAck(s) ==
    IF ~s.portOpen THEN s
    ELSE SetTop(writePacket(s, ControlPacket(USB_PROTO_CMD_ACK)),
                [Top(s) EXCEPT !.acks = @ + 1])

\* Variant of sendNack: the packet written carries the Ack command.
sendNackAsAck(s) == sendAck(s)

sendNack(s) ==
    IF ~s.portOpen THEN s
    ELSE SetTop(writePacket(s, ControlPacket(USB_PROTO_CMD_NACK)),
                [Top(s) EXCEPT !.nacks = @ + 1])

\* waitForData(timeoutMs) is entered: its timer starts
StartWait(s, pc, timeoutMs) ==
    SetTop(s, [Top(s) EXCEPT !.pc = pc, !.wStart = s.now, !.wTimeout = timeoutMs])

\* readData(length, USB_TIMEOUT_MS) is entered: its timer starts
StartRead(s, pc, length) ==
    SetTop(s, [Top(s) EXCEPT !.pc = pc, !.wStart = s.now, !.wTimeout = USB_TIMEOUT_MS,
                             !.wLen = length, !.wData = <<>>, !.wAbort = FALSE])

\* readPacketHeader is entered: it reads six bytes
StartHeader(s, pc) ==
    StartRead(SetTop(s, [Top(s) EXCEPT !.pktRead = 0]), pc, HEADER_SIZE)

\* readPacketHeader after readData returned: the errors it emits
HeaderErrors(s, headerData) ==
    IF Len(headerData) # HEADER_SIZE
    THEN onProtocolError(s, Msg("Incomplete header received (got %1 bytes)", "",
                                <<Len(headerData)>>))
    ELSE IF ~isValid(ParseHeader(headerData))
    THEN onProtocolError(s, Msg("Invalid magic number: 0x%1 (expected 0xAA55)", "",
                                <<ParseHeader(headerData).magic>>))
    ELSE s

---------------------------------------------------------------------------
\* Returning from a host call

RECURSIVE CountErrors(_, _)
CountErrors(evs, from) ==
    IF from >= Len(evs) THEN 0
    ELSE (IF evs[from + 1].sig = "errorOccurred" THEN 1 ELSE 0) + CountErrors(evs, from + 1)

\* The suspended operations see the port as the call left it: closed under
\* them (from this moment), or open again.
Remark(s) ==
    [s EXCEPT !.stack =
        [k \in 1..Len(s.stack) |->
            [s.stack[k] EXCEPT !.cancelAt =
                IF s.portOpen THEN -1 ELSE IF @ >= 0 THEN @ ELSE s.now]]]

RetRecord(s, f, result, step, depth) ==
    [op |-> f.op, seq |-> f.seq, args |-> f.args, result |-> result, step |-> step,
     time |-> s.now, depth |-> depth,
     errs |-> CountErrors(s.events, f.evBase),
     portOpen |-> s.portOpen, connected |-> s.m_isConnected, progress |-> s.m_progress,
     hsRet |-> f.hsRet, hsElapsed |-> f.hsElapsed, flCount |-> f.flCount,
     filesOk |-> f.filesOk, acks |-> f.acks, nacks |-> f.nacks,
     chunksOk |-> f.chunksOk, cancelAt |-> f.cancelAt]

NoRet == RetRecord([events |-> <<>>, now |-> 0, portOpen |-> FALSE,
                    m_isConnected |-> FALSE, m_progress |-> 0],
                   NewFrame("none", NoArgs, 0, 0), "none", "none", 0)

\* the operation of the top frame returns to the event loop that delivered it
Return(s, result, step) ==
    Remark([s EXCEPT !.lastRet = RetRecord(s, Top(s), result, step, Len(s.stack)),
                     !.stack = SubSeq(@, 1, Len(@) - 1)])

\* a host call that never waited returns
ReturnNow(s, op, args, seq, evBase, result, step) ==
    Remark([s EXCEPT !.lastRet = RetRecord(s, NewFrame(op, args, seq, evBase),
                                           result, step, Len(s.stack) + 1)])

---------------------------------------------------------------------------
\* DeviceManager::cleanupAfterError

\* Variant of cleanupAfterError: the state is reset, no error is emitted.
cleanupQuiet(s, errorMessage) ==
    LET s1 == IF s.portOpen THEN closePort(s) ELSE s
    IN  setStatus(setProgress(setConnected(s1, FALSE), 0), MsgSt(errorMessage))

cleanupAfterError(s, errorMessage) ==
    LET s1 == IF s.portOpen THEN closePort(s) ELSE s
    IN  emitError(setStatus(setProgress(setConnected(s1, FALSE), 0),
                            MsgSt(errorMessage)),
                  errorMessage)

---------------------------------------------------------------------------
\* DeviceProtocol::receiveFile, and the loop of doReceiveOperation around it

\* receiveFile is entered: it reads the file-info header
StartReceiveFile(s) ==
    StartHeader(onProtocolStatus(s, Msg("Receiving file...", "", <<>>)), "rf_header")

\* doReceiveOperation, step 4: all files received
FinishDownload(s) ==
    LET n == Len(Top(s).fileList)
        s1 == setProgress(setStatus(setConnected(closePort(s), FALSE),
                                    St("Complete: %1 files received!", "", <<n>>)),
                          100)
    IN  Return([s1 EXCEPT !.events = Append(@, Ev("downloadComplete", NoMsg))],
               "success", "none")

\* Variant of ReceiveLoop: the loop's bound is off by one, the last file of the
\* list is not received.
ReceiveLoopEarly(s) ==
    LET f == Top(s)
    IN  IF f.i + 1 < Len(f.fileList)
        THEN StartReceiveFile(setStatus(s, St("Receiving file %1/%2...", "",
                                              <<f.i + 1, Len(f.fileList)>>)))
        ELSE FinishDownload(s)

\* doReceiveOperation, step 3: the loop over the file list
ReceiveLoop(s) ==
    LET f == Top(s)
    IN  IF f.i < Len(f.fileList)
        THEN StartReceiveFile(setStatus(s, St("Receiving file %1/%2...", "",
                                              <<f.i + 1, Len(f.fileList)>>)))
        ELSE FinishDownload(s)

\* doReceiveOperation after receiveFile returned ok
AfterReceiveFile(s, ok) ==
    IF ~ok
    THEN Return(cleanupAfterError(s, Msg("Failed at file %1 - device may have disconnected",
                                         "", <<Top(s).i + 1>>)),
                "failure", "file")
    ELSE ReceiveLoop(SetTop(s, [Top(s) EXCEPT
                                   !.i = @ + 1, !.filesOk = @ + 1,
                                   !.saved = Append(@, <<Top(s).filename, Top(s).fileData>>)]))

\* Variant of FailReceiveFile: what was received of the file is written out
\* before the failure is reported.
FailReceiveFileKeep(s, msg, nack) ==
    LET f == Top(s)
        s1 == onProtocolError([s EXCEPT !.disk = {d \in @ : d[1] # f.filename}
                                                 \cup {<<f.filename, f.fileData>>}],
                              msg)
    IN  AfterReceiveFile(IF nack THEN sendNack(s1) ELSE s1, FALSE)

\* receiveFile fails: error, optional Nack, return false
FailReceiveFile(s, msg, nack) ==
    LET s1 == onProtocolError(s, msg)
    IN  AfterReceiveFile(IF nack THEN sendNack(s1) ELSE s1, FALSE)

\* receiveFile: the chunk loop's condition, and the save after it
ChunkLoop(s, e) ==
    LET f == Top(s)
    IN  IF Len(f.fileData) < ToInt32(f.fileSize)
        THEN StartHeader(s, "ch_header")
        ELSE IF ~e.saveOk
        THEN FailReceiveFile(s, Msg("Failed to save file: %1", "", <<>>), FALSE)
        ELSE AfterReceiveFile(
                 onProtocolStatus(
                     [s EXCEPT !.disk = {d \in @ : d[1] # f.filename}
                                        \cup {<<f.filename, f.fileData>>}],
                     Msg("File saved: %1", "", <<>>)),
                 TRUE)

\* receiveFile after the file-info header was read
RfHeader(s) ==
    LET data == Top(s).wData
        header == ParseHeader(data)
        s1 == HeaderErrors(s, data)
    IN  IF ~isValid(header) \/ header.command # USB_PROTO_CMD_FILE_DATA
        THEN FailReceiveFile(s1, Msg("Expected FILE_DATA command", "", <<>>), TRUE)
        ELSE StartRead(SetTop(s1, [Top(s1) EXCEPT !.header = header]),
                       "rf_payload", header.length)

\* receiveFile after the file-info payload was read
RfPayload(s, e) ==
    LET f == Top(s)
        data == f.wData
        fileIndex == StreamU(data, 0, 1)
        fileSize == StreamU32(data, 1)
        filename == FieldToBasename(Mid(data, 5, NAME_SIZE))
    IN  IF Len(data) # f.header.length
        THEN FailReceiveFile(s, Msg("Incomplete file info data", "", <<>>), TRUE)
        ELSE IF calculateChecksum(data) # f.header.checksum
        THEN FailReceiveFile(s, Msg("File info checksum mismatch", "", <<>>), TRUE)
        ELSE LET s1 == sendAck(onProtocolStatus(s, Msg("File: %1", "", <<fileIndex, fileSize.lo>>)))
             IN  ChunkLoop(SetTop(s1, [Top(s1) EXCEPT !.fileSize = fileSize,
                                                      !.filename = filename,
                                                      !.fileData = <<>>,
                                                      !.chunkNumber = 0]),
                           e)

\* receiveFile after a chunk header was read
ChHeader(s) ==
    LET data == Top(s).wData
        header == ParseHeader(data)
        s1 == HeaderErrors(s, data)
    IN  IF ~isValid(header) \/ header.command # USB_PROTO_CMD_FILE_DATA
        THEN FailReceiveFile(s1, Msg("Expected FILE_DATA chunk", "", <<>>), TRUE)
        ELSE StartRead(SetTop(s1, [Top(s1) EXCEPT !.header = header]),
                       "ch_payload", header.length)

\* Variant of ChunkInSequence: the chunk number is not compared.
ChunkAnyNumber(recvChunkNum, chunkNumber) == TRUE

\* receiveFile: the received chunk number is the expected one
ChunkInSequence(recvChunkNum, chunkNumber) == recvChunkNum = chunkNumber

\* receiveFile after a chunk payload was read
ChPayload(s, e) ==
    LET f == Top(s)
        data == f.wData
        recvChunkNum == StreamU(data, 0, 2)
        chunkSize == StreamU(data, 2, 2)
        fileData == f.fileData \o Mid(data, 4, chunkSize)
        progress == (Len(fileData) * 100) \div f.fileSize.lo
    IN  IF Len(data) # f.header.length
        THEN FailReceiveFile(s, Msg("Incomplete chunk data", "", <<>>), TRUE)
        ELSE IF calculateChecksum(data) # f.header.checksum
        THEN FailReceiveFile(s, Msg("Chunk %1 checksum mismatch", "", <<f.chunkNumber>>), TRUE)
        ELSE IF ~ChunkInSequence(recvChunkNum, f.chunkNumber)
        THEN FailReceiveFile(s, Msg("Chunk number mismatch (expected %1, got %2)", "",
                                    <<f.chunkNumber, recvChunkNum>>), TRUE)
        ELSE LET s1 == sendAck(SetTop(s, [f EXCEPT !.fileData = fileData,
                                                   !.chunkNumber = @ + 1,
                                                   !.chunksOk = @ + 1]))
             IN  ChunkLoop(onProtocolProgress(s1, progress, Len(fileData), f.fileSize.lo), e)

---------------------------------------------------------------------------
\* DeviceProtocol::receiveFileList, and doReceiveOperation around it

\* Variant of AfterFileList: an empty list is not told from a list.
AfterFileListAny(s, fileList) ==
    ReceiveLoop(SetTop(s, [Top(s) EXCEPT !.fileList = fileList, !.i = 0,
                                         !.flCount = Len(fileList)]))

\* doReceiveOperation after receiveFileList returned fileList
AfterFileList(s, fileList) ==
    IF fileList = <<>>
    THEN Return(cleanupAfterError(s, Msg("No files to receive or device disconnected",
                                         "", <<>>)),
                "failure", "filelist")
    ELSE ReceiveLoop(SetTop(s, [Top(s) EXCEPT !.fileList = fileList, !.i = 0,
                                              !.flCount = Len(fileList)]))

\* receiveFileList is entered: it reads one header
StartFileList(s) ==
    StartHeader(onProtocolStatus(s, Msg("Waiting for file list...", "", <<>>)), "fl_header")

\* Variant of FailFileList: after the error and the Nack the list is awaited again.
FailFileListRetry(s, msg) == StartFileList(sendNack(onProtocolError(s, msg)))

\* receiveFileList fails: error, Nack, return an empty list
FailFileList(s, msg) == AfterFileList(sendNack(onProtocolError(s, msg)), <<>>)

\* receiveFileList after the header was read
FlHeader(s) ==
    LET data == Top(s).wData
        header == ParseHeader(data)
        s1 == HeaderErrors(s, data)
    IN  IF ~isValid(header) \/ header.command # USB_PROTO_CMD_FILE_LIST
        THEN FailFileList(s1, Msg("Expected FILE_LIST command", "", <<>>))
        ELSE StartRead(SetTop(s1, [Top(s1) EXCEPT !.header = header]),
                       "fl_payload", header.length)

\* receiveFileList: the names of a payload that declares fileCount names
FileNames(data, fileCount) ==
    [k \in 1..fileCount |-> FieldToBasename(Mid(data, 1 + ((k - 1) * NAME_SIZE), NAME_SIZE))]

\* receiveFileList after the payload was read.  data[0] of an empty payload is
\* a read outside the array: e.ub is the byte it yields.
FlPayload(s, e) ==
    LET f == Top(s)
        data == f.wData
        fileCount == IF data = <<>> THEN e.ub ELSE data[1]
    IN  IF Len(data) # f.header.length
        THEN FailFileList(s, Msg("Incomplete file list data", "", <<>>))
        ELSE IF calculateChecksum(data) # f.header.checksum
        THEN FailFileList(s, Msg("File list checksum mismatch", "", <<>>))
        ELSE AfterFileList(
                 sendAck(onProtocolStatus(s, Msg("File list received: %1 files", "",
                                                 <<fileCount>>))),
                 FileNames(data, fileCount))

---------------------------------------------------------------------------
\* DeviceProtocol::waitForHandshake, and doReceiveOperation around it

\* doReceiveOperation after waitForHandshake returned ok
AfterHandshake(s, ok) ==
    LET s1 == SetTop(s, [Top(s) EXCEPT !.hsRet = ok, !.hsElapsed = s.now - Top(s).hsStart])
    IN  IF ~ok
        THEN Return(cleanupAfterError(s1, Msg("Timeout - no response from device", "", <<>>)),
                    "failure", "handshake")
        ELSE StartFileList(setStatus(s1, St("Handshake OK, receiving file list...", "", <<>>)))

\* waitForHandshake: the condition of the loop, then waitForData(100)
HsLoop(s) ==
    IF s.now - Top(s).hsStart < USB_TIMEOUT_MS
    THEN StartWait(s, "hs_wait", HANDSHAKE_POLL_MS)
    ELSE AfterHandshake(onProtocolError(s, Msg("Handshake timeout", "", <<>>)), FALSE)

\* waitForHandshake is entered: its timer starts
StartHandshake(s) ==
    HsLoop(SetTop(onProtocolStatus(s, Msg("Waiting for handshake from device...", "", <<>>)),
                  [Top(s) EXCEPT !.hsStart = s.now]))

\* waitForHandshake after waitForData(100) returned ready
HsWait(s, ready) == IF ~ready THEN HsLoop(s) ELSE StartHeader(s, "hs_header")

\* waitForHandshake after the header was read
HsHeader(s) ==
    LET data == Top(s).wData
        header == ParseHeader(data)
        s1 == HeaderErrors(s, data)
    IN  IF ~isValid(header) THEN HsLoop(s1)
        ELSE IF header.command = USB_PROTO_CMD_HANDSHAKE
        THEN StartRead(SetTop(s1, [Top(s1) EXCEPT !.header = header]),
                       "hs_payload", header.length)
        ELSE HsLoop(s1)

\* Variant of HandshakeReply: the handshake is accepted without an answer.
HandshakeNoReply(s) == s

\* waitForHandshake: what answers a complete, checksum-valid handshake
HandshakeReply(s) == sendAck(s)

\* waitForHandshake after the payload was read
HsPayload(s) ==
    LET f == Top(s)
        data == f.wData
        version == StreamU(data, 0, 1)
        timestamp == StreamU32(data, 1)
    IN  IF Len(data) # f.header.length
        THEN HsLoop(sendNack(onProtocolError(s, Msg("Incomplete handshake data", "", <<>>))))
        ELSE IF calculateChecksum(data) # f.header.checksum
        THEN HsLoop(sendNack(onProtocolError(s, Msg("Handshake checksum mismatch", "", <<>>))))
        ELSE AfterHandshake(
                 HandshakeReply(onProtocolStatus(s, Msg("Handshake received", "",
                                                        <<version, timestamp.lo>>))),
                 TRUE)

\* DeviceManager::doReceiveOperation is entered
doReceiveOperation(s) == StartHandshake(s)

---------------------------------------------------------------------------
\* DeviceProtocol::sendConfigFile, and sendSettings around it

\* sendSettings after sendConfigFile returned ok
AfterSendConfig(s, ok) ==
    IF ~ok
    THEN Return(cleanupAfterError(s, Msg("Failed to send configuration", "", <<>>)),
                "failure", "config")
    ELSE Return(setProgress(setStatus(setConnected(closePort(s), FALSE),
                                      St("Success! Plan %1 updated.", "",
                                         <<Top(s).args[1]>>)),
                            100),
                "success", "none")

\* sendConfigFile fails: error, optional Nack, return false
FailSendConfig(s, msg, nack) ==
    LET s1 == onProtocolError(s, msg)
    IN  AfterSendConfig(IF nack THEN sendNack(s1) ELSE s1, FALSE)

\* sendConfigFile: the size of the chunk that follows totalSent bytes
ChunkSizeAt(fileSize, totalSent) == Min(USB_CHUNK_SIZE, fileSize - totalSent)

\* sendConfigFile: the packet of the chunk that follows totalSent bytes
ChunkPacket(fileData, totalSent, chunkNumber) ==
    LET chunkSize == ChunkSizeAt(Len(fileData), totalSent)
        chunkData == Mid(fileData, totalSent, chunkSize)
    IN  BuildPacket(USB_PROTO_CMD_FILE_DATA, ChunkPayload(chunkNumber, chunkData))

\* sendConfigFile: the chunk packets its loop writes from totalSent on when
\* every chunk is acknowledged
RECURSIVE SendAll(_, _, _)
SendAll(fileData, totalSent, chunkNumber) ==
    IF totalSent < Len(fileData)
    THEN <<ChunkPacket(fileData, totalSent, chunkNumber)>>
         \o SendAll(fileData, totalSent + ChunkSizeAt(Len(fileData), totalSent),
                    (chunkNumber + 1) % 65536)
    ELSE <<>>

\* bookkeeping: the header that sendConfigFile read is a valid Ack header
NoteAck(s, header) ==
    IF isValid(header) /\ header.command = USB_PROTO_CMD_ACK
    THEN SetTop(s, [Top(s) EXCEPT !.acksRead = @ + 1])
    ELSE s

\* sendConfigFile: the chunk loop.  e.writeOk is whether waitForBytesWritten
\* reports the chunk written.
SendLoop(s, e) ==
    LET f == Top(s)
        fileSize == Len(f.fileData)
        chunkPacket == ChunkPacket(f.fileData, f.totalSent, f.chunkNumber)
    IN  IF f.totalSent < fileSize
        THEN IF ~(e.writeOk /\ s.portOpen)
             THEN FailSendConfig(writePacket(s, chunkPacket),
                                 Msg("Failed to send chunk %1", "", <<f.chunkNumber>>), FALSE)
             ELSE StartWait(writePacket(s, chunkPacket), "sc_chunk_wait", ACK_WAIT_MS)
        ELSE AfterSendConfig(
                 onProtocolProgress(
                     onProtocolStatus(s, Msg("Configuration sent successfully: %1", "", <<>>)),
                     100, fileSize, fileSize),
                 TRUE)

\* sendConfigFile is entered: the file info is written
StartSendConfig(s, e) ==
    LET f == Top(s)
        a == f.args
        fileData == CsvContent(a[2], a[3], a[4], a[5], a[6])
        infoData == InfoPayload(a[1], Len(fileData), SettingFilename(a[1]))
        packet == BuildPacket(USB_PROTO_CMD_FILE_DATA, infoData)
        s1 == writePacket(SetTop(s, [f EXCEPT !.fileData = fileData]), packet)
    IN  IF ~(e.writeOk /\ s.portOpen)
        THEN FailSendConfig(s1, Msg("Failed to send file info", "", <<>>), FALSE)
        ELSE StartWait(s1, "sc_info_wait", ACK_WAIT_MS)

\* sendConfigFile after waitForData(10000) for the file info returned ready
ScInfoWait(s, ready) ==
    IF ~ready
    THEN FailSendConfig(s, Msg("No response from device for file info", "", <<>>), FALSE)
    ELSE StartHeader(s, "sc_info_header")

\* Variant of ScInfoHeader: any valid header counts as the acknowledgment.
ScInfoHeaderLax(s, e) ==
    LET data == Top(s).wData
        header == ParseHeader(data)
        s1 == NoteAck(HeaderErrors(s, data), header)
    IN  IF ~isValid(header)
        THEN FailSendConfig(s1, Msg("Device did not acknowledge file info", "", <<>>), TRUE)
        ELSE SendLoop(SetTop(s1, [Top(s1) EXCEPT !.totalSent = 0, !.chunkNumber = 0]), e)

\* sendConfigFile after the answer to the file info was read
ScInfoHeader(s, e) ==
    LET data == Top(s).wData
        header == ParseHeader(data)
        s1 == NoteAck(HeaderErrors(s, data), header)
    IN  IF ~isValid(header) \/ header.command # USB_PROTO_CMD_ACK
        THEN FailSendConfig(s1, Msg("Device did not acknowledge file info", "", <<>>), TRUE)
        ELSE SendLoop(SetTop(s1, [Top(s1) EXCEPT !.totalSent = 0, !.chunkNumber = 0]), e)

\* sendConfigFile after waitForData(10000) for a chunk returned ready
ScChunkWait(s, ready) ==
    IF ~ready
    THEN FailSendConfig(s, Msg("No ACK for chunk %1", "", <<Top(s).chunkNumber>>), FALSE)
    ELSE StartHeader(s, "sc_chunk_header")

\* sendConfigFile after the answer to a chunk was read
ScChunkHeader(s, e) ==
    LET f == Top(s)
        data == f.wData
        header == ParseHeader(data)
        s1 == NoteAck(HeaderErrors(s, data), header)
        fileSize == Len(f.fileData)
        totalSent == f.totalSent + ChunkSizeAt(fileSize, f.totalSent)
    IN  IF ~isValid(header) \/ header.command # USB_PROTO_CMD_ACK
        THEN FailSendConfig(s1, Msg("Device NACK for chunk %1", "", <<f.chunkNumber>>), FALSE)
        ELSE SendLoop(
                 onProtocolProgress(
                     SetTop(s1, [Top(s1) EXCEPT !.totalSent = totalSent,
                                                !.chunkNumber = (@ + 1) % 65536]),
                     (totalSent * 100) \div fileSize, totalSent, fileSize),
                 e)

---------------------------------------------------------------------------
\* DeviceManager::sendSettings: the validation of its arguments.  The result
\* is the status text and the error text of the first check that fails, or
\* NoReject.

NoReject == [status |-> "", error |-> ""]
Reject(status, error) == [status |-> status, error |-> error]

\* Variants of InRange: the lower edge is excluded; the upper edge is not checked.
InRangeStrict(v, lo, hi) == ~(v <= lo \/ v > hi)
InRangeNoUpper(v, lo, hi) == ~(v < lo)

InRange(v, lo, hi) == ~(v < lo \/ v > hi)

SettingsCheck(portName, planIndex, current, sampleRate, duration, minTemp, maxTemp) ==
    IF portName = ""
    THEN Reject("Error: No port selected", "No port selected")
    ELSE IF ~InRange(planIndex, 1, 4)
    THEN Reject("Error: Invalid plan index (must be 1-4)", "Invalid plan index")
    ELSE IF ~InRange(current, 1, 500)
    THEN Reject("Error: Current must be 1-500 mA", "Invalid current value")
    ELSE IF ~InRange(sampleRate, 1, 1000)
    THEN Reject("Error: Sample rate must be 1-1000 minutes", "Invalid sample rate")
    ELSE IF ~InRange(duration, 1, 1000)
    THEN Reject("Error: Duration must be 1-1000 hours", "Invalid duration")
    ELSE IF ~InRange(minTemp, -40, 85)
    THEN Reject("Error: Min temp must be -40 to 85 C", "Invalid min temperature")
    ELSE IF ~InRange(maxTemp, -40, 85)
    THEN Reject("Error: Max temp must be -40 to 85 C", "Invalid max temperature")
    ELSE IF minTemp >= maxTemp
    THEN Reject("Error: Min temp must be less than max temp",
                "Min temp must be less than max temp")
    ELSE NoReject

---------------------------------------------------------------------------
\* Where the top frame stands

WaitPcs == {"hs_wait", "sc_info_wait", "sc_chunk_wait"}
ReadPcs == {"hs_header", "hs_payload", "fl_header", "fl_payload", "rf_header",
            "rf_payload", "ch_header", "ch_payload", "sc_info_header", "sc_chunk_header"}

Running == stack # <<>>
TopF == stack[Len(stack)]
InWait == Running /\ TopF.pc \in WaitPcs
InRead == Running /\ TopF.pc \in ReadPcs

\* Variant of WaitActive: the loop's condition does not consult its timer.
WaitActiveNoTimer == InWait

\* the condition of waitForData's loop
WaitActive == InWait /\ now - TopF.wStart < TopF.wTimeout
\* the condition of readData's loop
ReadActive ==
    InRead /\ Len(TopF.wData) < TopF.wLen /\ now - TopF.wStart < TopF.wTimeout
           /\ ~TopF.wAbort
\* readData returns: the loop ended, the port is closed, or the port reports an error
ReadFinished ==
    InRead /\ (~ReadActive \/ ~portOpen \/ (rx = <<>> /\ serialError))

\* processEvents runs at the top of an iteration of either loop
AtPump == WaitActive \/ ReadActive

\* The UI may make a host call: from the idle event loop, or from the pump of
\* a wait.  The disconnect is delivered at any pump.  Another call delivered
\* inside an operation is one of the session's irregularities, and none is
\* delivered once depthLimit operations are in progress.
CanNest == Len(stack) < depthLimit /\ faultsLeft > 0
CanCancel == callsLeft > 0 /\ (~Running \/ AtPump)
CanCall == CanCancel /\ (~Running \/ CanNest)

\* The call begins.  The clock and the event log restart with an outermost call.
Entry(s) ==
    [s EXCEPT !.now = IF s.stack = <<>> THEN 0 ELSE @,
              !.events = IF s.stack = <<>> THEN <<>> ELSE @,
              !.ioTouched = FALSE]

Called(op, portName, args) ==
    /\ call' = [op |-> op, port |-> portName, args |-> args, seq |-> callsLeft]
    /\ callsLeft' = callsLeft - 1
    /\ dev' = (IF portOpen' THEN dev ELSE DevOff)
    /\ faultsLeft' = IF Running /\ op # "disconnectFromDevice"
                     THEN faultsLeft - 1 ELSE faultsLeft
    /\ tick' = IF Running THEN tick ELSE 0
    /\ UNCHANGED <<latesLeft, depthLimit, codec>>

Push(s, op, args) ==
    [s EXCEPT !.stack = Append(@, NewFrame(op, args, callsLeft, Len(s.events))),
              !.lastRet = NoRet]

Ports == {"", "COM3"}

\* Arguments of sendSettings: three valid plans (one inside the ranges, one on
\* their lower edges, one on their upper edges), each argument alone just
\* outside its range, and the temperature pair out of order.
BaseArgs == <<2, 250, 1, 3, -20, 30>>
LowArgs == <<1, 1, 1, 1, -40, -39>>
HighArgs == <<4, 500, 1000, 1000, 84, 85>>
Vary(k, vals) == {[BaseArgs EXCEPT ![k] = v] : v \in vals}
SettingsInputs ==
    {BaseArgs, LowArgs, HighArgs}
    \cup Vary(1, {0, 5}) \cup Vary(2, {0, 501})
    \cup Vary(3, {0, 1001}) \cup Vary(4, {0, 1001})
    \cup Vary(5, {-41, 86}) \cup Vary(6, {-41, 86})
    \cup {<<2, 250, 1, 3, 50, 50>>, <<2, 250, 1, 3, 30, -20>>, <<0, 501, 0, 0, 86, -41>>}

---------------------------------------------------------------------------
\* Host calls (DeviceManager's invokables)

disconnectFromDevice(s) ==
    setStatus(setConnected(closePort(s), FALSE), St("Ready", "", <<>>))

DisconnectFromDevice ==
    /\ CanCancel
    /\ LET s0 == Entry(Cur)
       IN  Commit(ReturnNow(disconnectFromDevice(s0), "disconnectFromDevice", NoArgs,
                            callsLeft, Len(s0.events), "success", "none"))
    /\ Called("disconnectFromDevice", "", NoArgs)

connectToDevice(s, portName, success) ==
    LET s1 == IF s.m_isConnected THEN disconnectFromDevice(s) ELSE s
        s2 == openPort(setStatus(s1, St("Connecting...", "", <<>>)), portName, success)
    IN  IF success
        THEN setStatus(setConnected(s2, TRUE), St("Connected to %1", portName, <<>>))
        ELSE setStatus(s2, St("Failed to connect", "", <<>>))

ConnectToDevice(portName, ok) ==
    /\ CanCall
    /\ LET s0 == Entry(Cur)
           success == ok /\ portName # ""
       IN  Commit(ReturnNow(connectToDevice(s0, portName, success), "connectToDevice",
                            NoArgs, callsLeft, Len(s0.events),
                            IF success THEN "success" ELSE "failure", "open"))
    /\ Called("connectToDevice", portName, NoArgs)

\* Variant of StartDownload: the connected flag is not consulted.
StartDownloadAlways ==
    /\ CanCall
    /\ LET s0 == Entry(Cur)
       IN  Commit(doReceiveOperation(
                  Push(setProgress(setStatus(s0, St("Waiting for device...", "", <<>>)), 0),
                       "startDownload", NoArgs)))
    /\ Called("startDownload", "", NoArgs)

StartDownload ==
    /\ CanCall
    /\ LET s0 == Entry(Cur)
       IN  IF ~s0.m_isConnected
           THEN Commit(ReturnNow(emitError(s0, Msg("Not connected to device", "", <<>>)),
                                 "startDownload", NoArgs, callsLeft, Len(s0.events),
                                 "failure", "connect"))
           ELSE Commit(doReceiveOperation(
                       Push(setProgress(setStatus(s0, St("Waiting for device...", "", <<>>)), 0),
                            "startDownload", NoArgs)))
    /\ Called("startDownload", "", NoArgs)

ReceiveResults(portName, ok) ==
    /\ CanCall
    /\ LET s0 == Entry(Cur)
           success == ok /\ portName # ""
           s1 == openPort(setProgress(setStatus(s0, St("Opening port...", "", <<>>)), 0),
                          portName, success)
       IN  IF portName = ""
           THEN Commit(ReturnNow(emitError(s0, Msg("No port selected", "", <<>>)),
                                 "receiveResults", NoArgs, callsLeft, Len(s0.events),
                                 "failure", "validate"))
           ELSE IF ~success
           THEN Commit(ReturnNow(emitError(setStatus(s1, St("Failed to open port", "", <<>>)),
                                           Msg("Failed to open port", "", <<>>)),
                                 "receiveResults", NoArgs, callsLeft, Len(s0.events),
                                 "failure", "open"))
           ELSE Commit(doReceiveOperation(
                       Push(setStatus(setConnected(s1, TRUE),
                                      St("Waiting for device to start transfer...", "", <<>>)),
                            "receiveResults", NoArgs)))
    /\ Called("receiveResults", portName, NoArgs)

SendSettings(portName, args, ok, writeOk) ==
    /\ CanCall
    /\ LET s0 == Entry(Cur)
           check == SettingsCheck(portName, args[1], args[2], args[3], args[4],
                                  args[5], args[6])
           s1 == openPort(setStatus(setProgress(s0, 0),
                                    St("Connecting to device...", "", <<>>)),
                          portName, ok)
       IN  IF check # NoReject
           THEN Commit(ReturnNow(emitError(setStatus(s0, St(check.status, "", <<>>)),
                                           Msg(check.error, "", <<>>)),
                                 "sendSettings", args, callsLeft, Len(s0.events),
                                 "failure", "validate"))
           ELSE IF ~ok
           THEN Commit(ReturnNow(cleanupAfterError(
                                     s1, Msg("Failed to open port - check connection", "", <<>>)),
                                 "sendSettings", args, callsLeft, Len(s0.events),
                                 "failure", "open"))
           ELSE Commit(StartSendConfig(
                       Push(setStatus(setConnected(s1, TRUE),
                                      St("Connected. Sending configuration to Plan %1...", "",
                                         <<args[1]>>)),
                            "sendSettings", args),
                       [writeOk |-> writeOk]))
    /\ Called("sendSettings", portName, args)

---------------------------------------------------------------------------
\* DeviceProtocol::waitForData

Env == <<call, callsLeft, dev, faultsLeft, latesLeft, depthLimit, codec>>

\* a step of the host: the device's transfer ends when the port is closed
HostStep(s) ==
    /\ Commit(s)
    /\ dev' = (IF s.portOpen THEN dev ELSE DevOff)
    /\ tick' = 1 - tick
    /\ UNCHANGED <<call, callsLeft, faultsLeft, latesLeft, depthLimit, codec>>

WaitDone(s, ready) ==
    CASE Top(s).pc = "hs_wait" -> HsWait(s, ready)
      [] Top(s).pc = "sc_info_wait" -> ScInfoWait(s, ready)
      [] Top(s).pc = "sc_chunk_wait" -> ScChunkWait(s, ready)

\* bytesAvailable() > 0, or waitForReadyRead(50) saw bytes arrive: return true
WaitForDataReady ==
    /\ WaitActive /\ portOpen /\ rx # <<>>
    /\ HostStep(WaitDone(Cur, TRUE))

\* timer.elapsed() >= timeoutMs: return false
WaitForDataTimeout ==
    /\ InWait /\ ~WaitActive
    /\ HostStep(WaitDone(Cur, FALSE))

\* The port is not open: return false at once.  waitForHandshake answers that
\* with `continue`, and its loop has no other exit than its timer: the
\* iterations that follow are taken here, up to the one that finds the timer
\* expired.
WaitForDataClosed ==
    /\ WaitActive /\ ~portOpen
    /\ LET s == IF TopF.pc = "hs_wait"
                THEN [Cur EXCEPT !.now = Max(@, TopF.hsStart + USB_TIMEOUT_MS)]
                ELSE Cur
       IN  HostStep(WaitDone(s, FALSE))

\* Where a quiet stretch of a wait that began at start and lasts timeoutMs
\* ends: in its last poll, or at its expiry.
QuietUntil(start, timeoutMs) ==
    IF now < start + timeoutMs - READY_READ_MS
    THEN start + timeoutMs - READY_READ_MS
    ELSE start + timeoutMs

\* Nothing arrives: waitForReadyRead(50) times out, again and again.  Within
\* waitForHandshake the quiet sub-waits up to the last one are taken at once.
WaitForDataIdle ==
    /\ WaitActive /\ portOpen /\ rx = <<>>
    /\ LET lastSubWait == TopF.hsStart + USB_TIMEOUT_MS - HANDSHAKE_POLL_MS
       IN  IF TopF.pc = "hs_wait" /\ now < lastSubWait
           THEN /\ now' = lastSubWait
                /\ stack' = [stack EXCEPT ![Len(stack)].wStart = lastSubWait]
           ELSE /\ now' = QuietUntil(TopF.wStart, TopF.wTimeout)
                /\ UNCHANGED stack
    /\ UNCHANGED <<portOpen, rx, tx, serialError, m_isConnected, m_progress, m_status,
                   events, disk, lastRet, ioTouched>>
    /\ tick' = 1 - tick
    /\ UNCHANGED Env

---------------------------------------------------------------------------
\* DeviceProtocol::readData

\* m_serialPort->read(length - totalRead); a port error ends the loop after it
ReadDataRead ==
    /\ ReadActive /\ portOpen /\ rx # <<>>
    /\ LET n == Min(Len(rx), TopF.wLen - Len(TopF.wData))
       IN  /\ stack' = [stack EXCEPT ![Len(stack)] =
                           [@ EXCEPT !.wData = @ \o SubSeq(rx, 1, n),
                                     !.pktRead = @ + n,
                                     !.wAbort = serialError]]
           /\ rx' = SubSeq(rx, n + 1, Len(rx))
    /\ ioTouched' = TRUE
    /\ UNCHANGED <<portOpen, tx, serialError, m_isConnected, m_progress, m_status,
                   events, disk, now, lastRet>>
    /\ tick' = 1 - tick
    /\ UNCHANGED Env

\* nothing arrives: waitForReadyRead(50) times out, again and again
ReadDataIdle ==
    /\ ReadActive /\ portOpen /\ rx = <<>> /\ ~serialError
    /\ now' = QuietUntil(TopF.wStart, TopF.wTimeout)
    /\ UNCHANGED <<portOpen, rx, tx, serialError, m_isConnected, m_progress, m_status,
                   events, disk, stack, lastRet, ioTouched>>
    /\ tick' = 1 - tick
    /\ UNCHANGED Env

\* readData returned; the caller goes on
UbBytes == {0, 1}

HsHeaderDone ==
    /\ ReadFinished /\ TopF.pc = "hs_header"
    /\ HostStep(HsHeader(Cur))

HsPayloadDone ==
    /\ ReadFinished /\ TopF.pc = "hs_payload"
    /\ HostStep(HsPayload(Cur))

FlHeaderDone ==
    /\ ReadFinished /\ TopF.pc = "fl_header"
    /\ HostStep(FlHeader(Cur))

FlPayloadDone ==
    /\ ReadFinished /\ TopF.pc = "fl_payload"
    /\ \E ub \in UbBytes : HostStep(FlPayload(Cur, [ub |-> ub]))

RfHeaderDone ==
    /\ ReadFinished /\ TopF.pc = "rf_header"
    /\ HostStep(RfHeader(Cur))

RfPayloadDone ==
    /\ ReadFinished /\ TopF.pc = "rf_payload"
    /\ \E saveOk \in BOOLEAN : HostStep(RfPayload(Cur, [saveOk |-> saveOk]))

ChHeaderDone ==
    /\ ReadFinished /\ TopF.pc = "ch_header"
    /\ HostStep(ChHeader(Cur))

ChPayloadDone ==
    /\ ReadFinished /\ TopF.pc = "ch_payload"
    /\ \E saveOk \in BOOLEAN : HostStep(ChPayload(Cur, [saveOk |-> saveOk]))

ScInfoHeaderDone ==
    /\ ReadFinished /\ TopF.pc = "sc_info_header"
    /\ \E writeOk \in BOOLEAN : HostStep(ScInfoHeader(Cur, [writeOk |-> writeOk]))

ScChunkHeaderDone ==
    /\ ReadFinished /\ TopF.pc = "sc_chunk_header"
    /\ \E writeOk \in BOOLEAN : HostStep(ScChunkHeader(Cur, [writeOk |-> writeOk]))

---------------------------------------------------------------------------
\* The device.  In send mode it follows the download protocol (handshake, file
\* list, then per file its info and its chunks), and may send a malformed
\* variant of the packet that is due; in receive mode it answers with Ack
\* headers or malformed ones.  It never waits for the host.

\* file k of the device: "/sd/f<k>", of DevChunk * (k - 1) + 1 bytes
DevFileName(k) == <<47, 115, 100, 47, 102, 48 + k>>
DevFileData(k) == [j \in 1..((DevChunk * (k - 1)) + 1) |-> ((16 * k) + j) % 256]
DevNameField(k) == DevFileName(k) \o Zeros(NAME_SIZE - Len(DevFileName(k)))

RECURSIVE DevNameFields(_)
DevNameFields(k) == IF k = 0 THEN <<>> ELSE DevNameFields(k - 1) \o DevNameField(k)

DevCommand(d) ==
    CASE d.stage = "hs" -> USB_PROTO_CMD_HANDSHAKE
      [] d.stage = "list" -> USB_PROTO_CMD_FILE_LIST
      [] d.stage \in {"info", "chunk", "stream"} -> USB_PROTO_CMD_FILE_DATA
      [] d.stage = "ack" -> USB_PROTO_CMD_ACK

DevChunkData(d) ==
    SubSeq(DevFileData(d.fi), (d.ck * DevChunk) + 1,
           Min((d.ck + 1) * DevChunk, Len(DevFileData(d.fi))))

DevPayload(d, fault) ==
    CASE d.stage = "hs" -> <<1>> \o LE32(1000000)
      [] d.stage = "list" ->
            IF fault = "count0" THEN <<0>>
            ELSE <<DevFileCount>> \o DevNameFields(DevFileCount)
      \* "hugesize": the file is declared with 2^31 bytes (00 00 00 80)
      [] d.stage = "info" ->
            <<d.fi>>
            \o (IF fault = "hugesize" THEN <<0, 0, 0, 128>>
                ELSE LE32(Len(DevFileData(d.fi))))
            \o DevNameField(d.fi)
      [] d.stage = "chunk" ->
            LET chunkData == IF fault = "longchunk" THEN DevChunkData(d) \o <<255>>
                             ELSE DevChunkData(d)
            IN  IF fault = "zerochunk" THEN LE16(d.ck) \o LE16(0)
                ELSE LE16(IF fault = "badnum" THEN d.ck + 1 ELSE d.ck)
                     \o LE16(Len(chunkData)) \o chunkData
      \* the endless stream: in-order chunks without data, the number in 16 bits
      [] d.stage = "stream" -> LE16(d.ck) \o LE16(0)
      [] d.stage = "ack" -> <<>>

DevPacket(magic, command, length, checksum, payload) ==
    LE16(magic) \o <<command>> \o LE16(length) \o <<checksum>> \o payload

DevBytes(d, fault) ==
    LET payload == DevPayload(d, fault)
        command == DevCommand(d)
        checksum == calculateChecksum(payload)
        whole == DevPacket(USB_PROTO_MAGIC, command, Len(payload), checksum, payload)
    IN  CASE fault \in {"ok", "count0", "badnum", "longchunk", "zerochunk", "hugesize"} -> whole
          [] fault = "badsum" ->
                DevPacket(USB_PROTO_MAGIC, command, Len(payload), Xor(checksum, 255), payload)
          [] fault = "badmagic" ->
                DevPacket(USB_PROTO_MAGIC + 256, command, Len(payload), checksum, payload)
          [] fault = "wrongcmd" ->
                DevPacket(USB_PROTO_MAGIC, USB_PROTO_CMD_CONFIG_REQ, Len(payload),
                          checksum, payload)
          [] fault = "nack" ->
                DevPacket(USB_PROTO_MAGIC, USB_PROTO_CMD_NACK, 0, 0, <<>>)
          [] fault = "empty" ->
                DevPacket(USB_PROTO_MAGIC, command, 0, 0, <<>>)
          [] fault = "shorthdr" -> SubSeq(whole, 1, HEADER_SIZE \div 2)
          [] fault = "shortpayload" -> SubSeq(whole, 1, Len(whole) - 1)

DevFaults(d) ==
    CASE d.stage = "ack" -> {"nack", "badmagic", "shorthdr"}
      [] d.stage = "list" ->
            {"badsum", "badmagic", "wrongcmd", "empty", "shorthdr", "shortpayload", "count0"}
      [] d.stage = "chunk" ->
            {"badsum", "badmagic", "wrongcmd", "empty", "shorthdr", "shortpayload", "badnum",
             "longchunk", "zerochunk"}
      [] d.stage = "info" ->
            {"badsum", "badmagic", "wrongcmd", "empty", "shorthdr", "shortpayload",
             "hugesize"}
      [] OTHER -> {"badsum", "badmagic", "wrongcmd", "empty", "shorthdr", "shortpayload"}

DevNext(d) ==
    CASE d.stage = "hs" -> [d EXCEPT !.stage = "list"]
      [] d.stage = "list" -> [d EXCEPT !.stage = "info", !.fi = 1, !.ck = 0]
      [] d.stage = "info" -> [d EXCEPT !.stage = "chunk", !.ck = 0]
      [] d.stage = "chunk" ->
            IF (d.ck + 1) * DevChunk < Len(DevFileData(d.fi))
            THEN [d EXCEPT !.ck = @ + 1]
            ELSE IF d.fi < DevFileCount
            THEN [d EXCEPT !.stage = "info", !.fi = @ + 1, !.ck = 0]
            ELSE [d EXCEPT !.stage = "done"]
      [] d.stage = "ack" ->
            IF d.ck + 1 < MaxDevAcks THEN [d EXCEPT !.ck = @ + 1]
            ELSE [d EXCEPT !.stage = "done"]
      [] d.stage = "stream" -> [d EXCEPT !.ck = @ + 1]

HostEnvUnchanged ==
    UNCHANGED <<portOpen, tx, serialError, m_isConnected, m_progress, m_status,
                events, disk, now, stack, lastRet, call, ioTouched, callsLeft,
                depthLimit, codec, tick>>

\* the host has already polled in vain in the wait it is in
Late ==
    /\ Running
    /\ \/ now > TopF.wStart
       \/ TopF.pc \in {"hs_wait", "hs_header", "hs_payload"} /\ now > TopF.hsStart

\* the device may be late MaxLate times
Timely ==
    /\ Late => latesLeft > 0
    /\ latesLeft' = IF Late THEN latesLeft - 1 ELSE latesLeft

\* the transfer that the operation in progress expects of the device
Expected(mode) ==
    Running => (mode = IF TopF.op = "sendSettings" THEN "recv" ELSE "send")

\* the user starts the device's transfer on the open line; the wrong transfer
\* counts as a fault
DeviceArm(mode) ==
    /\ portOpen /\ ~serialError /\ dev = DevOff
    /\ Expected(mode) \/ faultsLeft > 0
    /\ faultsLeft' = IF Expected(mode) THEN faultsLeft ELSE faultsLeft - 1
    /\ dev' = [DevFresh(mode) EXCEPT !.inOp = Running]
    /\ UNCHANGED <<portOpen, rx, tx, serialError, m_isConnected, m_progress, m_status,
                   events, disk, now, stack, lastRet, call, ioTouched, callsLeft,
                   latesLeft, depthLimit, codec, tick>>

\* the device runs ahead of the host by less than a header and a packet
LineFree == Len(rx) < HEADER_SIZE

\* the device sends the packet that is due
DeviceSend ==
    /\ portOpen /\ ~serialError /\ dev.stage # "done" /\ LineFree
    /\ rx' = rx \o DevBytes(dev, "ok")
    /\ dev' = DevNext(dev)
    /\ Timely
    /\ UNCHANGED faultsLeft
    /\ HostEnvUnchanged

\* the device sends a malformed variant of the packet that is due
DeviceFault(fault) ==
    /\ portOpen /\ ~serialError /\ dev.stage # "done" /\ LineFree
    /\ faultsLeft > 0 /\ fault \in DevFaults(dev)
    /\ rx' = rx \o DevBytes(dev, fault)
    /\ faultsLeft' = faultsLeft - 1
    /\ Timely
    /\ dev' = [dev EXCEPT !.fault = fault]
    /\ HostEnvUnchanged

\* the line breaks during an operation: the port reports a hard error
DeviceUnplug ==
    /\ portOpen /\ ~serialError /\ Running /\ faultsLeft > 0
    /\ serialError' = TRUE
    /\ dev' = DevOff
    /\ faultsLeft' = faultsLeft - 1
    /\ UNCHANGED <<portOpen, rx, tx, m_isConnected, m_progress, m_status, events, disk,
                   now, stack, lastRet, call, ioTouched, callsLeft, latesLeft, depthLimit,
                   codec, tick>>

AllFaults ==
    {"badsum", "badmagic", "wrongcmd", "empty", "shorthdr", "shortpayload", "count0",
     "badnum", "longchunk", "zerochunk", "hugesize", "nack"}

---------------------------------------------------------------------------
\* Specifications

\* no frame is in the codec
NoCodec ==
    [pc |-> "none", command |-> 0, payload |-> <<>>, packet |-> <<>>,
     header |-> NoHeader, data |-> <<>>]

InitWith(depth) ==
    /\ portOpen = FALSE
    /\ rx = <<>>
    /\ tx = <<>>
    /\ serialError = FALSE
    /\ m_isConnected = FALSE
    /\ m_progress = 0
    /\ m_status = St("Ready", "", <<>>)
    /\ events = <<>>
    /\ disk = {}
    /\ now = 0
    /\ stack = <<>>
    /\ lastRet = NoRet
    /\ call = [op |-> "none", port |-> "", args |-> NoArgs, seq |-> 0]
    /\ ioTouched = FALSE
    /\ dev = DevOff
    /\ faultsLeft = MaxFaults
    /\ latesLeft = MaxLate
    /\ callsLeft = MaxHostCalls
    /\ depthLimit = depth
    /\ codec = NoCodec
    /\ tick = 0

\* The UI disables its operation buttons while an operation runs, and leaves
\* the disconnect enabled.
Init == InitWith(1)

Next ==
    \/ DisconnectFromDevice
    \/ \E portName \in Ports, ok \in BOOLEAN : ConnectToDevice(portName, ok)
    \/ StartDownload
    \/ \E portName \in Ports, ok \in BOOLEAN : ReceiveResults(portName, ok)
    \/ \E portName \in Ports, args \in SettingsInputs, ok \in BOOLEAN, writeOk \in BOOLEAN :
          SendSettings(portName, args, ok, writeOk)
    \/ WaitForDataReady
    \/ WaitForDataTimeout
    \/ WaitForDataClosed
    \/ WaitForDataIdle
    \/ ReadDataRead
    \/ ReadDataIdle
    \/ HsHeaderDone
    \/ HsPayloadDone
    \/ FlHeaderDone
    \/ FlPayloadDone
    \/ RfHeaderDone
    \/ RfPayloadDone
    \/ ChHeaderDone
    \/ ChPayloadDone
    \/ ScInfoHeaderDone
    \/ ScChunkHeaderDone
    \/ \E mode \in {"send", "recv"} : DeviceArm(mode)
    \/ DeviceSend
    \/ \E fault \in AllFaults : DeviceFault(fault)
    \/ DeviceUnplug

Spec == Init /\ [][Next]_vars

\* The host's thread runs: while an operation is in progress it is inside
\* waitForData's or readData's loop or between two of them, and a step of it
\* is taken (the clock advancing through the quiet stretches).  Every step of
\* the thread, and no other step of an operation in progress, flips tick.
HostRuns == Running /\ tick' = 1 - tick

\* The device that streams in-order chunks without data for ever.  The host
\* accepts each of them (receiveFile's loop runs while the file is short of
\* its declared size) and counts them in an int, the device numbers them in
\* 16 bits.  The session is taken up StreamTail chunks before the count leaves
\* 16 bits: receiveResults("COM3") is in receiveFile for /sd/f1 (declared
\* size 1), has acknowledged the handshake, the list, the file info and
\* 65536 - StreamTail chunks, and is about to read the next header.
StreamTail == 2
StreamFrom == 65536 - StreamTail

RECURSIVE Repeated(_, _)
Repeated(packet, n) ==
    IF n = 0 THEN <<>>
    ELSE LET half == Repeated(packet, n \div 2)
         IN  half \o half \o (IF n % 2 = 1 THEN <<packet>> ELSE <<>>)

StreamFrame ==
    [NewFrame("receiveResults", NoArgs, 1, 0) EXCEPT
        !.pc = "ch_header", !.wTimeout = USB_TIMEOUT_MS, !.wLen = HEADER_SIZE,
        !.header = [magic |-> USB_PROTO_MAGIC, command |-> USB_PROTO_CMD_FILE_DATA,
                    length |-> 4,
                    checksum |-> calculateChecksum(LE16(StreamFrom - 1) \o LE16(0))],
        !.fileList = [k \in 1..DevFileCount |-> FieldToBasename(DevNameField(k))],
        !.fileSize = [hi |-> 0, lo |-> Len(DevFileData(1))],
        !.filename = FieldToBasename(DevNameField(1)),
        !.chunkNumber = StreamFrom,
        !.hsRet = TRUE, !.hsElapsed = 0, !.flCount = DevFileCount,
        !.acks = 3 + StreamFrom, !.chunksOk = StreamFrom]

InitStream ==
    /\ portOpen = TRUE
    /\ rx = <<>>
    /\ tx = Repeated(ControlPacket(USB_PROTO_CMD_ACK), 3 + StreamFrom)
    /\ serialError = FALSE
    /\ m_isConnected = TRUE
    /\ m_progress = 0
    /\ m_status = St("Receiving: %1% (%2/%3 bytes)", "", <<0, 0, Len(DevFileData(1))>>)
    /\ events = <<>>
    /\ disk = {}
    /\ now = 0
    /\ stack = <<StreamFrame>>
    /\ lastRet = NoRet
    /\ call = [op |-> "receiveResults", port |-> "COM3", args |-> NoArgs, seq |-> 1]
    /\ ioTouched = TRUE
    /\ dev = [DevFresh("send") EXCEPT !.stage = "stream", !.fi = 1, !.ck = StreamFrom,
                                      !.inOp = TRUE]
    /\ faultsLeft = 0
    /\ latesLeft = 0
    /\ callsLeft = 0
    /\ depthLimit = 1
    /\ codec = NoCodec
    /\ tick = 1

\* The sessions of Spec and the streaming device's, with the host running.
InitLive == Init \/ InitStream
SpecLive == InitLive /\ [][Next]_vars /\ WF_tick(HostRuns)

\* The re-entrant sessions: the UI lets host calls through while an operation
\* waits, up to MaxDepth operations deep.
InitR == InitWith(MaxDepth)
SpecR == InitR /\ [][Next]_vars

---------------------------------------------------------------------------
\* The frame codec on its own: a packet is built as sendConfigFile builds its
\* packets, then taken apart as the receiving side does, by readPacketHeader
\* on the first six bytes and a read of header.length bytes after them.

CodecCommands == 0..7 \cup {255}
CodecBytes == {0, 1, 85, 170, 255}

\* all payloads over CodecBytes of up to MaxPayload bytes, and three long ones
\* around the carry of the length field's low byte
ShortPayloads ==
    UNION {[1..n -> CodecBytes] : n \in 0..MaxPayload}
LongPayloads == {[k \in 1..n |-> (3 * k) % 256] : n \in {255, 256, 257}}
CodecPayloads == ShortPayloads \cup LongPayloads

HostUnchanged ==
    UNCHANGED <<portOpen, rx, tx, serialError, m_isConnected, m_progress, m_status,
                events, disk, now, stack, lastRet, call, ioTouched, dev, faultsLeft,
                latesLeft, callsLeft, depthLimit, tick>>

InitCodec ==
    /\ portOpen = FALSE /\ rx = <<>> /\ tx = <<>> /\ serialError = FALSE
    /\ m_isConnected = FALSE /\ m_progress = 0 /\ m_status = St("Ready", "", <<>>)
    /\ events = <<>> /\ disk = {} /\ now = 0 /\ stack = <<>> /\ lastRet = NoRet
    /\ call = [op |-> "none", port |-> "", args |-> NoArgs, seq |-> 0]
    /\ ioTouched = FALSE /\ dev = DevOff
    /\ faultsLeft = 0 /\ latesLeft = 0 /\ callsLeft = 0 /\ depthLimit = 0 /\ tick = 0
    /\ \E command \in CodecCommands, payload \in CodecPayloads :
          codec = [NoCodec EXCEPT !.pc = "input", !.command = command,
                                  !.payload = payload]

\* the packet is built: header, then payload
CodecBuild ==
    /\ codec.pc = "input"
    /\ codec' = [codec EXCEPT !.pc = "built",
                               !.packet = BuildPacket(codec.command, codec.payload)]
    /\ HostUnchanged

\* readPacketHeader on the first six bytes of the packet
CodecReadHeader ==
    /\ codec.pc = "built"
    /\ codec' = [codec EXCEPT !.pc = "header",
                               !.header = ParseHeader(Left(codec.packet, HEADER_SIZE))]
    /\ HostUnchanged

\* readData(header.length) on the bytes that follow the header
CodecReadPayload ==
    /\ codec.pc = "header" /\ isValid(codec.header)
    /\ codec' = [codec EXCEPT !.pc = "payload",
                               !.data = Mid(codec.packet, HEADER_SIZE, codec.header.length)]
    /\ HostUnchanged

NextCodec == CodecBuild \/ CodecReadHeader \/ CodecReadPayload

SpecCodec == InitCodec /\ [][NextCodec]_vars

---------------------------------------------------------------------------
\* Chunk numbering on its own: the chunk packets that sendConfigFile's loop
\* writes, numbered by its quint16 chunkNumber, are taken one by one by
\* receiveFile's loop, which counts them in its int chunkNumber.  The data
\* bytes of the chunks, which the numbering does not depend on, are left out.

NumberedChunks == 65537   \* chunks the sender has to send

InitNumbering ==
    /\ portOpen = FALSE /\ rx = <<>> /\ tx = <<>> /\ serialError = FALSE
    /\ m_isConnected = FALSE /\ m_progress = 0 /\ m_status = St("Ready", "", <<>>)
    /\ events = <<>> /\ disk = {} /\ now = 0 /\ stack = <<>> /\ lastRet = NoRet
    /\ call = [op |-> "none", port |-> "", args |-> NoArgs, seq |-> 0]
    /\ ioTouched = FALSE /\ dev = DevOff
    /\ faultsLeft = 0 /\ latesLeft = 0 /\ callsLeft = 0 /\ depthLimit = 0 /\ tick = 0
    /\ codec = [pc |-> "send", sender |-> [chunkNumber |-> 0],
                receiver |-> [chunkNumber |-> 0], packet |-> <<>>, error |-> ""]

\* sendConfigFile's loop: the next chunk is written and, once acknowledged,
\* the quint16 chunkNumber is incremented
ChunkSent ==
    /\ codec.pc = "send" /\ codec.receiver.chunkNumber < NumberedChunks
    /\ codec' = [codec EXCEPT
                    !.pc = "receive",
                    !.packet = BuildPacket(USB_PROTO_CMD_FILE_DATA,
                                           ChunkPayload(codec.sender.chunkNumber, <<>>)),
                    !.sender.chunkNumber = (@ + 1) % 65536]
    /\ HostUnchanged

\* receiveFile's loop: header, payload, checksum, then the chunk number
\* against the int chunkNumber, which is incremented when they are equal
ChunkReceived ==
    /\ codec.pc = "receive"
    /\ LET header == ParseHeader(Left(codec.packet, HEADER_SIZE))
           data == Mid(codec.packet, HEADER_SIZE, header.length)
           recvChunkNum == StreamU(data, 0, 2)
           chunkNumber == codec.receiver.chunkNumber
       IN  codec' =
               IF ~isValid(header) \/ header.command # USB_PROTO_CMD_FILE_DATA
               THEN [codec EXCEPT !.pc = "failed", !.error = "Expected FILE_DATA chunk"]
               ELSE IF Len(data) # header.length
               THEN [codec EXCEPT !.pc = "failed", !.error = "Incomplete chunk data"]
               ELSE IF calculateChecksum(data) # header.checksum
               THEN [codec EXCEPT !.pc = "failed", !.error = "Chunk %1 checksum mismatch"]
               ELSE IF ~ChunkInSequence(recvChunkNum, chunkNumber)
               THEN [codec EXCEPT
                        !.pc = "failed",
                        !.error = "Chunk number mismatch (expected %1, got %2)"]
               ELSE [codec EXCEPT !.pc = "send", !.receiver.chunkNumber = @ + 1]
    /\ HostUnchanged

SpecNumbering == InitNumbering /\ [][ChunkSent \/ ChunkReceived]_vars

---------------------------------------------------------------------------
\* Properties

Downloads == {"startDownload", "receiveResults"}
Operations == Downloads \cup {"sendSettings"}
HsPcs == {"hs_wait", "hs_header", "hs_payload"}
FlPcs == {"fl_header", "fl_payload"}
RfPcs == {"rf_header", "rf_payload", "ch_header", "ch_payload"}

HasEvent(sig) == \E k \in 1..Len(events) : events[k].sig = sig
HasError(text) ==
    \E k \in 1..Len(events) : events[k].sig = "errorOccurred" /\ events[k].msg.text = text

AckPacket == ControlPacket(USB_PROTO_CMD_ACK)
NackPacket == ControlPacket(USB_PROTO_CMD_NACK)

\* the host takes the step that follows a finished read at pc
HostStepAt(pc) == ReadFinished /\ TopF.pc = pc /\ stack' # stack

\* the payload read is complete and its XOR is the header's checksum
PayloadGood ==
    /\ Len(TopF.wData) = TopF.header.length
    /\ calculateChecksum(TopF.wData) = TopF.header.checksum

\* C1: a download emits downloadComplete only after the handshake succeeded,
\* then a non-empty file list of N names was received, then N files were
\* received; no file is received before the list and no list before the
\* handshake; at downloadComplete the port is closed, the connected flag is
\* false and progress is 100.
C1_DownloadOrder ==
    /\ \A k \in 1..Len(stack) :
          LET f == stack[k]
          IN  f.op \in Downloads =>
                /\ f.pc \in HsPcs => ~f.hsRet /\ f.flCount = -1 /\ f.filesOk = 0
                /\ f.pc \in FlPcs => f.hsRet /\ f.flCount = -1 /\ f.filesOk = 0
                /\ f.pc \in RfPcs =>
                      /\ f.hsRet /\ f.flCount >= 1 /\ f.flCount = Len(f.fileList)
                      /\ f.filesOk = f.i /\ f.filesOk < f.flCount
    /\ HasEvent("downloadComplete") =>
          /\ lastRet.op \in Downloads /\ lastRet.result = "success"
          /\ lastRet.hsRet /\ lastRet.flCount >= 1 /\ lastRet.filesOk = lastRet.flCount
          /\ ~lastRet.portOpen /\ ~lastRet.connected /\ lastRet.progress = 100
          /\ ~portOpen /\ ~m_isConnected /\ m_progress = 100

C1_Witness ==
    /\ HasEvent("downloadComplete")
    /\ lastRet.flCount = DevFileCount /\ lastRet.filesOk = DevFileCount
    /\ Cardinality(disk) = DevFileCount

\* C2: when an operation returns because one of its steps failed (opening
\* the port, handshake, file list, a file, the config send), the port is
\* closed, the connected flag is false, progress is 0 and an error event was
\* emitted.
C2_UniformCleanup ==
    (/\ lastRet.op \in Operations /\ lastRet.result = "failure"
     /\ lastRet.step \in {"open", "handshake", "filelist", "file", "config"})
    => /\ ~lastRet.portOpen /\ ~lastRet.connected
       /\ lastRet.progress = 0 /\ lastRet.errs >= 1

\* C3: in receiveFile, a complete, checksum-valid chunk whose number is not
\* the expected one makes the file receive fail: one Nack is written, nothing
\* more is read (the port is closed with what it holds), nothing is saved,
\* and the download ends in failure at that file.
C3_ChunkMismatchFails ==
    [][(/\ HostStepAt("ch_payload") /\ PayloadGood
        /\ StreamU(TopF.wData, 0, 2) # TopF.chunkNumber)
       => /\ stack' = SubSeq(stack, 1, Len(stack) - 1)
          /\ tx' = Append(tx, NackPacket)
          /\ ~portOpen' /\ rx' = <<>>
          /\ disk' = disk
          /\ lastRet'.result = "failure" /\ lastRet'.step = "file"
          /\ lastRet'.filesOk = TopF.filesOk /\ lastRet'.acks = TopF.acks
          /\ lastRet'.nacks = TopF.nacks + 1]_vars

C3_Witness ==
    /\ HasError("Chunk number mismatch (expected %1, got %2)")
    /\ lastRet.result = "failure" /\ lastRet.step = "file" /\ lastRet.nacks = 1

\* C4: in waitForHandshake, a valid header with the Handshake command followed
\* by exactly `length` payload bytes whose XOR is the header's checksum is
\* answered with exactly one Ack, and the handshake returns success having
\* read the six header bytes and the payload bytes of that packet and nothing
\* after them.
C4_HandshakeAccepted ==
    [][(/\ HostStepAt("hs_payload") /\ PayloadGood
        /\ isValid(TopF.header) /\ TopF.header.command = USB_PROTO_CMD_HANDSHAKE)
       => /\ tx' = Append(tx, AckPacket)
          /\ rx' = rx
          /\ TopF.pktRead = HEADER_SIZE + TopF.header.length
          /\ Len(stack') = Len(stack)
          /\ stack'[Len(stack)].hsRet /\ stack'[Len(stack)].pc = "fl_header"
          /\ stack'[Len(stack)].acks = TopF.acks + 1
          /\ stack'[Len(stack)].nacks = TopF.nacks]_vars

C4_Witness ==
    /\ Running /\ TopF.pc = "fl_header" /\ TopF.hsRet
    /\ TopF.acks = 1 /\ tx = <<AckPacket>>
    /\ TopF.wData = <<>> /\ rx # <<>>

\* C5: in waitForHandshake, a Handshake packet whose payload XOR differs from
\* the header's checksum is answered with a Nack, never with an Ack or with
\* success; the handshake goes on waiting in the same overall window, and it
\* returns failure only once that window has run out.
C5_BadChecksumNack ==
    /\ [][(/\ HostStepAt("hs_payload")
           /\ Len(TopF.wData) = TopF.header.length
           /\ calculateChecksum(TopF.wData) # TopF.header.checksum)
          => /\ tx' = Append(tx, NackPacket)
             /\ IF now - TopF.hsStart < USB_TIMEOUT_MS
                THEN /\ Len(stack') = Len(stack)
                     /\ stack'[Len(stack)].pc = "hs_wait"
                     /\ ~stack'[Len(stack)].hsRet
                     /\ stack'[Len(stack)].hsStart = TopF.hsStart
                     /\ stack'[Len(stack)].acks = TopF.acks
                ELSE /\ lastRet'.result = "failure" /\ lastRet'.step = "handshake"
                     /\ lastRet'.acks = 0]_vars
    /\ [](lastRet.step = "handshake" => /\ lastRet.result = "failure"
                                        /\ lastRet.hsElapsed >= USB_TIMEOUT_MS
                                        /\ lastRet.acks = 0)

C5_Witness ==
    /\ HasError("Handshake checksum mismatch")
    /\ Running /\ TopF.hsRet /\ TopF.nacks = 1 /\ TopF.acks = 1
    /\ tx = <<NackPacket, AckPacket>>

\* C6: waitForHandshake returns false no later than its overall timeout plus
\* one 100 ms sub-wait.
C6_HandshakeDeadline ==
    (lastRet.step = "handshake" /\ lastRet.result = "failure")
    => lastRet.hsElapsed <= USB_TIMEOUT_MS + HANDSHAKE_POLL_MS

\* C7: sendSettings invokes a transport primitive if and only if the port
\* name is non-empty, planIndex is in 1..4, current in 1..500, sampleRate in
\* 1..1000, duration in 1..1000, both temperatures in -40..85 and
\* minTemp < maxTemp; for any other input it emits an error and leaves the
\* port, its buffers and the operations as they were.
ValidSettings(portName, a) ==
    /\ portName # ""
    /\ a[1] \in 1..4 /\ a[2] \in 1..500 /\ a[3] \in 1..1000 /\ a[4] \in 1..1000
    /\ a[5] \in -40..85 /\ a[6] \in -40..85 /\ a[5] < a[6]

C7_ValidationGuardsTransport ==
    /\ [](call.op = "sendSettings" => (ioTouched <=> ValidSettings(call.port, call.args)))
    /\ [][(/\ callsLeft' < callsLeft /\ call'.op = "sendSettings"
           /\ ~ValidSettings(call'.port, call'.args))
          => /\ portOpen' = portOpen /\ rx' = rx /\ tx' = tx /\ stack' = stack
             /\ m_isConnected' = m_isConnected
             /\ events' # <<>> /\ events'[Len(events')].sig = "errorOccurred"
             /\ lastRet'.result = "failure" /\ lastRet'.step = "validate"]_vars

C7_Witness ==
    /\ call.op = "sendSettings" /\ ~ValidSettings(call.port, call.args)
    /\ call.port # "" /\ ~ioTouched /\ portOpen
    /\ lastRet.step = "validate" /\ lastRet.errs = 1

\* C8: the inputs named by the claim, and the rule of the claim that each
\* one breaks.
C8Inputs ==
    {<<0, 250, 1, 3, -20, 30>>, <<5, 250, 1, 3, -20, 30>>, <<2, 501, 1, 3, -20, 30>>,
     <<2, 250, 1, 3, 50, 50>>, <<2, 250, 1, 3, 86, 30>>}
C8Rule(a) ==
    CASE a[1] \notin 1..4 -> "plan"
      [] a[2] \notin 1..500 -> "current"
      [] a[5] \notin -40..85 -> "min"
      [] OTHER -> "order"
C8Error(a) == SettingsCheck("COM3", a[1], a[2], a[3], a[4], a[5], a[6]).error
C8Called == call.op = "sendSettings" /\ call.port # "" /\ call.args \in C8Inputs
C8Rejected ==
    /\ lastRet.op = "sendSettings" /\ lastRet.args = call.args
    /\ lastRet.result = "failure" /\ lastRet.step = "validate"
    /\ ~ioTouched /\ events # <<>>
    /\ events[Len(events)] = Ev("errorOccurred", Msg(C8Error(call.args), "", <<>>))

\* C8 as stated: each of planIndex=0, planIndex=5, current=501, minTemp=50
\* with maxTemp=50, and minTemp=86 is rejected, with an error that none of the
\* other four gets.
C8_DistinctErrors ==
    C8Called => /\ C8Rejected
                /\ \A b \in C8Inputs \ {call.args} :
                      C8Error(b) # events[Len(events)].msg.text

\* C8 amended: each of the five inputs is rejected; two of them get the same
\* error exactly when they break the same rule, which planIndex=0 and
\* planIndex=5 do ("Invalid plan index").
C8_ErrorPerRule ==
    C8Called => /\ C8Rejected
                /\ \A b \in C8Inputs :
                      (C8Error(b) = events[Len(events)].msg.text)
                      <=> (C8Rule(b) = C8Rule(call.args))

C8_Witness ==
    /\ C8Called /\ C8Rejected /\ call.args[1] = 5
    /\ events[Len(events)].msg.text = C8Error(<<0, 250, 1, 3, -20, 30>>)

\* C9: at most one operation is in progress at a time.
C9_OneOperation == Len(stack) <= 1

\* C10: an operation whose port was closed under it while it waited returns
\* failure within one poll of the close.
C10_CancelFailsFast ==
    (lastRet.op \in Operations /\ lastRet.cancelAt >= 0)
    => /\ lastRet.result = "failure"
       /\ lastRet.time - lastRet.cancelAt <= READY_READ_MS

\* the size a file-info payload declares, and the one the step at hand goes by
Declared ==
    IF TopF.pc = "rf_payload" THEN StreamU32(TopF.wData, 1) ELSE TopF.fileSize

\* C11: every file that receiveFile saves has exactly the length that its
\* file-info payload declared.
C11_SavedFileExact ==
    [][\A d \in disk' \ disk :
          /\ Running /\ TopF.pc \in {"rf_payload", "ch_payload"}
          /\ Declared.hi = 0 /\ Len(d[2]) = Declared.lo]_vars

\* C12: the progress percentage the manager holds lies in 0..100.
C12_ProgressRange == m_progress \in 0..100

\* the fields and the data of a packet as it is on the wire
WireHeader(packet) == ParseHeader(Left(packet, HEADER_SIZE))
WirePayload(packet) == SubSeq(packet, HEADER_SIZE + 1, Len(packet))
WireChunkData(packet) == SubSeq(packet, HEADER_SIZE + 5, Len(packet))

RECURSIVE ConcatData(_)
ConcatData(packets) ==
    IF packets = <<>> THEN <<>>
    ELSE WireChunkData(packets[1]) \o ConcatData(Tail(packets))

\* the chunk packets are those of fileData: ceil(S/512) of them, each a
\* FileData packet with at most 512 data bytes, its size field its data
\* length, numbered from 0, and together carrying fileData
ChunksOf(packets, fileData) ==
    /\ Len(packets) = (Len(fileData) + (USB_CHUNK_SIZE - 1)) \div USB_CHUNK_SIZE
    /\ \A k \in 1..Len(packets) :
          LET h == WireHeader(packets[k])
              payload == WirePayload(packets[k])
              chunkData == WireChunkData(packets[k])
          IN  /\ h.magic = USB_PROTO_MAGIC /\ h.command = USB_PROTO_CMD_FILE_DATA
              /\ h.length = Len(payload) /\ Len(payload) = 4 + Len(chunkData)
              /\ payload[1] + (256 * payload[2]) = k - 1
              /\ payload[3] + (256 * payload[4]) = Len(chunkData)
              /\ Len(chunkData) <= USB_CHUNK_SIZE
    /\ ConcatData(packets) = fileData

\* files around the multiples of the chunk size, up to MaxChunks full chunks
\* and one byte
TestSizes ==
    {n \in 0..((MaxChunks * USB_CHUNK_SIZE) + 1) :
        n % USB_CHUNK_SIZE \in {0, 1, USB_CHUNK_SIZE - 1}}
TestFile(n) == [k \in 1..n |-> (7 * k) % 256]

\* the latest call was a sendSettings that went through with every chunk
\* acknowledged
UploadDone ==
    /\ call.op = "sendSettings" /\ lastRet.op = "sendSettings"
    /\ lastRet.seq = call.seq /\ lastRet.result = "success"

\* C13: when every chunk is acknowledged, sendConfigFile sends a file of size
\* S as ceil(S/512) FileData chunk packets after the file info, each with at
\* most 512 data bytes and its chunkSize field equal to its data length,
\* numbered 0, 1, 2, ..., whose data concatenated is the file; the loop does
\* so for files of up to MaxChunks full chunks and one byte.
C13_ChunkingExact ==
    UploadDone =>
        LET a == call.args
            fileData == CsvContent(a[2], a[3], a[4], a[5], a[6])
            chunks == SubSeq(tx, 2, Len(tx))
        IN  /\ tx # <<>>
            /\ ChunksOf(chunks, fileData)
            /\ chunks = SendAll(fileData, 0, 0)
            /\ \A n \in TestSizes : ChunksOf(SendAll(TestFile(n), 0, 0), TestFile(n))

C13_Witness ==
    /\ UploadDone /\ Len(tx) = 2 /\ m_progress = 100
    /\ WireChunkData(tx[2]) = CsvContent(250, 1, 3, -20, 30)

\* the FileData packets among the packets written
DataPackets(packets) ==
    Cardinality({k \in 1..Len(packets) : packets[k][3] = USB_PROTO_CMD_FILE_DATA})

\* C14: sendConfigFile is stop-and-wait: the chunk packets written never
\* exceed the Ack headers read so far (the first chunk follows the Ack of the
\* file info, chunk k+1 the Ack of chunk k), and never are two packets of
\* the host outstanding.
C14_StopAndWait ==
    \A k \in 1..Len(stack) :
        LET f == stack[k]
        IN  (f.op = "sendSettings" /\ k = Len(stack)) =>
                /\ DataPackets(tx) >= 1
                /\ DataPackets(tx) - 1 <= f.acksRead
                /\ f.pc \in {"sc_info_wait", "sc_info_header"} =>
                        f.acksRead = 0 /\ DataPackets(tx) = 1
                /\ f.pc \in {"sc_chunk_wait", "sc_chunk_header"} =>
                        f.acksRead = f.chunkNumber + 1 /\ DataPackets(tx) = f.acksRead + 1

C14_Witness ==
    /\ Running /\ TopF.op = "sendSettings" /\ TopF.pc = "sc_chunk_header"
    /\ TopF.acksRead = 1 /\ DataPackets(tx) = 2
    /\ isValid(ParseHeader(TopF.wData))
    /\ ParseHeader(TopF.wData).command = USB_PROTO_CMD_ACK

\* bit b of byte v
Bit(v, b) == (v \div (2 ^ b)) % 2

\* c is the XOR of the bytes of data: bit by bit, the parity of the bytes
\* that have the bit
IsXorOf(c, data) ==
    /\ c \in 0..255
    /\ \A b \in 0..7 :
          Bit(c, b) = Cardinality({k \in 1..Len(data) : Bit(data[k], b) = 1}) % 2

\* C15: a packet built from a command and a payload p starts with 0x55 0xAA;
\* its header decodes to magic 0xAA55, the same command, length |p| and the
\* XOR of the bytes of p as checksum (0 for an empty p), and the length bytes
\* after the header are p.
C15_FrameRoundTrip ==
    /\ codec.pc \in {"built", "header", "payload"} =>
          /\ Len(codec.packet) = HEADER_SIZE + Len(codec.payload)
          /\ codec.packet[1] = 85 /\ codec.packet[2] = 170
    /\ codec.pc \in {"header", "payload"} =>
          /\ codec.header.magic = 43605 /\ isValid(codec.header)
          /\ codec.header.command = codec.command
          /\ codec.header.length = Len(codec.payload)
          /\ IsXorOf(codec.header.checksum, codec.payload)
          /\ codec.payload = <<>> => codec.header.checksum = 0
          /\ codec.header.checksum = calculateChecksum(codec.payload)
    /\ codec.pc = "payload" => codec.data = codec.payload

C15_Witness ==
    /\ codec.pc = "payload" /\ Len(codec.payload) = 257
    /\ codec.header.length = 257 /\ codec.packet[4] = 1 /\ codec.packet[5] = 1
    /\ codec.header.checksum # 0 /\ codec.data = codec.payload

HeaderPcs == {"hs_header", "fl_header", "rf_header", "ch_header", "sc_info_header",
              "sc_chunk_header"}
PayloadPcs == {"hs_payload", "fl_payload", "rf_payload", "ch_payload"}

\* six bytes were read and they start with 0x55 0xAA
SixWithMagic(data) == Len(data) = HEADER_SIZE /\ data[1] = 85 /\ data[2] = 170

\* headers with the magic and with magics near it, over a few other fields
SampleHeaders ==
    [magic : {0, 21930, 43604, 43605, 43606, 43861, 65535},
     command : {0, 1, 5, 255}, length : {0, 1, 65535}, checksum : {0, 255}]

\* C16: the header that readPacketHeader returns is valid only if six bytes
\* were read and its magic is 0xAA55, whatever its other fields; a short read
\* gives an invalid header.  A step that follows an invalid header writes no
\* Ack, counts no Ack as read, sends no chunk and reads no payload: the
\* handshake goes back to its loop, every other sub-protocol fails.
C16_InvalidHeaderRejected ==
    /\ [](\A k \in 1..Len(stack) :
            stack[k].pc \in HeaderPcs /\ Len(stack[k].wData) < HEADER_SIZE
            => ~isValid(ParseHeader(stack[k].wData)))
    /\ []((ReadFinished /\ TopF.pc \in HeaderPcs) =>
            /\ isValid(ParseHeader(TopF.wData)) <=> SixWithMagic(TopF.wData)
            /\ \A h \in SampleHeaders : isValid(h) <=> h.magic = 43605)
    /\ [][(/\ ReadFinished /\ TopF.pc \in HeaderPcs /\ stack' # stack
           /\ callsLeft' = callsLeft
           /\ ~SixWithMagic(TopF.wData))
          => /\ tx' \in {tx, Append(tx, NackPacket)}
             /\ IF TopF.pc = "hs_header" /\ Len(stack') = Len(stack)
                THEN /\ tx' = tx
                     /\ stack'[Len(stack)].pc = "hs_wait"
                     /\ ~stack'[Len(stack)].hsRet
                     /\ stack'[Len(stack)].acks = TopF.acks
                ELSE /\ stack' = SubSeq(stack, 1, Len(stack) - 1)
                     /\ lastRet'.result = "failure"
                     /\ lastRet'.acks = TopF.acks
                     /\ lastRet'.filesOk = TopF.filesOk
                     /\ disk' = disk]_vars

C16_Witness ==
    /\ HasError("Invalid magic number: 0x%1 (expected 0xAA55)")
    /\ lastRet.op \in Downloads /\ lastRet.step = "filelist"
    /\ lastRet.acks = 1 /\ lastRet.nacks = 1
    /\ tx = <<AckPacket, NackPacket>>

\* the host takes the step that follows a finished read at pc
ReadStepAt(pc) ==
    /\ ReadFinished /\ TopF.pc = pc
    /\ callsLeft' = callsLeft /\ stack' # stack

\* e is the text of the name field up to its first null, without the path up
\* to its last '/'
IsBasenameOf(e, field) ==
    \E n \in 0..Len(field) :
        /\ n = Len(field) \/ field[n + 1] = 0
        /\ \A j \in 1..n : field[j] # 0
        /\ \E m \in 0..n :
              /\ e = SubSeq(field, m + 1, n)
              /\ m = 0 \/ field[m] = 47
              /\ \A j \in (m + 1)..n : field[j] # 47

\* name field k (from 1) of a file-list payload
NameField(data, k) == SubSeq(data, 2 + ((k - 1) * NAME_SIZE), 1 + (k * NAME_SIZE))

\* C17: receiveFileList, on a valid FileList packet whose payload is a count
\* and that many 64-byte name fields and whose checksum matches, writes
\* exactly one Ack and returns the names in wire order, count of them, each
\* the text of its field up to the first null without its path; the download
\* goes on to the first file with that list (and stops for a count of 0).
C17_FileListDecoded ==
    [][(/\ ReadStepAt("fl_payload") /\ PayloadGood
        /\ isValid(TopF.header) /\ TopF.header.command = USB_PROTO_CMD_FILE_LIST
        /\ TopF.wData # <<>>
        /\ Len(TopF.wData) = 1 + (NAME_SIZE * TopF.wData[1]))
       => LET data == TopF.wData
              count == data[1]
          IN  /\ tx' = Append(tx, AckPacket)
              /\ IF count = 0
                 THEN /\ stack' = SubSeq(stack, 1, Len(stack) - 1)
                      /\ lastRet'.step = "filelist"
                      /\ lastRet'.acks = TopF.acks + 1 /\ lastRet'.nacks = TopF.nacks
                 ELSE /\ Len(stack') = Len(stack)
                      /\ LET g == stack'[Len(stack)]
                         IN  /\ g.pc = "rf_header" /\ g.i = 0
                             /\ Len(g.fileList) = count /\ g.flCount = count
                             /\ \A k \in 1..count :
                                   IsBasenameOf(g.fileList[k], NameField(data, k))
                             /\ g.acks = TopF.acks + 1 /\ g.nacks = TopF.nacks]_vars

C17_Witness ==
    /\ Running /\ TopF.pc = "rf_header" /\ TopF.i = 0
    /\ Len(TopF.fileList) = DevFileCount
    /\ TopF.fileList[1] = <<102, 49>>
    /\ TopF.fileList[DevFileCount] = <<102, 48 + DevFileCount>>
    /\ tx = <<AckPacket, AckPacket>>

\* receiveFileList is about to return an empty list: its header or its payload
\* fails, or the payload declares no file
EmptyListCase ==
    IF TopF.pc = "fl_header"
    THEN \/ ~SixWithMagic(TopF.wData)
         \/ ParseHeader(TopF.wData).command # USB_PROTO_CMD_FILE_LIST
    ELSE \/ ~PayloadGood
         \/ TopF.wData # <<>> /\ TopF.wData[1] = 0

\* C18: when receiveFileList returns an empty list, for a failed header or
\* payload as for a well-formed list of 0 files, the download ends there
\* through the cleanup: port closed, connected false, progress 0, an error
\* emitted last, no file received or saved, no downloadComplete.  The
\* download goes on to a file only with a list that is not empty.
C18_EmptyListFails ==
    /\ [][(/\ ReadFinished /\ TopF.pc \in FlPcs /\ TopF.op \in Downloads
           /\ callsLeft' = callsLeft /\ stack' # stack)
          => /\ EmptyListCase => Len(stack') < Len(stack)
             /\ Len(stack') < Len(stack) =>
                   /\ lastRet'.result = "failure" /\ lastRet'.step = "filelist"
                   /\ ~portOpen' /\ ~m_isConnected' /\ m_progress' = 0
                   /\ events'[Len(events')] =
                         Ev("errorOccurred",
                            Msg("No files to receive or device disconnected", "", <<>>))
                   /\ lastRet'.filesOk = 0 /\ disk' = disk
                   /\ \A k \in 1..Len(events') : events'[k].sig # "downloadComplete"
             /\ Len(stack') = Len(stack) =>
                   /\ stack'[Len(stack)].pc \in {"fl_payload", "rf_header"}
                   /\ stack'[Len(stack)].pc = "rf_header" =>
                         stack'[Len(stack)].fileList # <<>>]_vars
    /\ [](lastRet.step = "filelist" =>
            /\ lastRet.op \in Downloads /\ lastRet.result = "failure"
            /\ ~lastRet.portOpen /\ ~lastRet.connected /\ lastRet.progress = 0
            /\ lastRet.errs >= 1 /\ lastRet.filesOk = 0 /\ lastRet.flCount = -1)

C18_Witness ==
    /\ lastRet.step = "filelist" /\ lastRet.result = "failure"
    /\ lastRet.acks = 2 /\ lastRet.nacks = 0 /\ tx = <<AckPacket, AckPacket>>
    /\ ~portOpen /\ ~m_isConnected /\ m_progress = 0 /\ disk = {}
    /\ ~HasEvent("downloadComplete")

ScWaitPcs == {"sc_info_wait", "sc_chunk_wait"}
ScPcs == ScWaitPcs \cup {"sc_info_header", "sc_chunk_header"}
SubPcs == FlPcs \cup RfPcs \cup ScPcs

\* a sub-protocol other than the handshake takes the step that follows a
\* finished read or a finished wait
SubStep ==
    /\ Running /\ TopF.pc \in SubPcs
    /\ TopF.pc \in ReadPcs => ReadFinished
    /\ callsLeft' = callsLeft /\ stack' # stack

\* the command that the header read at pc must carry
ExpectedCommand(pc) ==
    CASE pc = "fl_header" -> USB_PROTO_CMD_FILE_LIST
      [] pc \in {"rf_header", "ch_header"} -> USB_PROTO_CMD_FILE_DATA
      [] pc \in {"sc_info_header", "sc_chunk_header"} -> USB_PROTO_CMD_ACK

\* a failure condition holds at the step: invalid magic or short header,
\* wrong command, short payload, checksum mismatch, chunk out of sequence,
\* no answer within the Ack wait
FailureCase ==
    CASE TopF.pc \in HeaderPcs ->
            \/ ~SixWithMagic(TopF.wData)
            \/ ParseHeader(TopF.wData).command # ExpectedCommand(TopF.pc)
      [] TopF.pc \in PayloadPcs ->
            \/ ~PayloadGood
            \/ TopF.pc = "ch_payload" /\ StreamU(TopF.wData, 0, 2) # TopF.chunkNumber
      [] TopF.pc \in ScWaitPcs -> ~WaitActive \/ ~portOpen

\* the step of the orchestrator that a failure at pc ends in
FailedStep(pc) ==
    CASE pc \in FlPcs -> "filelist" [] pc \in RfPcs -> "file" [] pc \in ScPcs -> "config"

\* C19: receiveFileList, receiveFile and sendConfigFile do not retry: at the
\* first failure condition the sub-protocol ends in failure, writing at most
\* a Nack, and the operation returns through the cleanup with the port
\* closed and what it held dropped, so that no further header or payload is
\* read, no further data packet is written and no further sub-protocol is
\* started; a step that emits an error always ends the operation so.
C19_NoRetryOutsideHandshake ==
    [][SubStep =>
        LET ended == /\ stack' = SubSeq(stack, 1, Len(stack) - 1)
                     /\ lastRet'.result = "failure"
                     /\ lastRet'.step = FailedStep(TopF.pc)
                     /\ ~portOpen' /\ rx' = <<>>
                     /\ lastRet'.filesOk = TopF.filesOk
                     /\ disk' = disk
        IN  /\ FailureCase => /\ ended
                               /\ tx' \in {tx, Append(tx, NackPacket)}
                               /\ lastRet'.acks = TopF.acks
                               /\ lastRet'.errs >= CountErrors(events, TopF.evBase) + 2
            /\ CountErrors(events', 0) > CountErrors(events, 0) => ended
            /\ ~ended => Len(stack') = Len(stack) \/ lastRet'.result = "success"]_vars

C19_Witness ==
    /\ lastRet.op = "sendSettings" /\ lastRet.result = "failure"
    /\ lastRet.step = "config" /\ HasError("No ACK for chunk %1")
    /\ lastRet.time >= ACK_WAIT_MS /\ Len(tx) = 2 /\ ~portOpen

\* the host calls that can fail
FailingCalls == {"connectToDevice", "startDownload", "receiveResults", "sendSettings"}

\* C20: every connectToDevice, startDownload, receiveResults or sendSettings
\* that returns without success has emitted at least one errorOccurred of the
\* manager between its entry and its return, and a call returns as success
\* or as failure.
C20_ErrorsSurface ==
    /\ lastRet.op \in FailingCalls => lastRet.result \in {"success", "failure"}
    /\ (lastRet.op \in FailingCalls /\ lastRet.result # "success") =>
          /\ lastRet.errs >= 1
          /\ (stack = <<>> /\ call.seq = lastRet.seq) => HasEvent("errorOccurred")

C20_Witness ==
    /\ lastRet.op = "startDownload" /\ lastRet.result = "failure"
    /\ lastRet.step = "connect" /\ lastRet.errs = 1
    /\ events = <<Ev("errorOccurred", Msg("Not connected to device", "", <<>>))>>

---------------------------------------------------------------------------
\* C21: progress is 0 while startDownload, receiveResults or sendSettings is
\* in its first steps (before any file or chunk is transferred), and after
\* any of the three has ended in failure, whatever the failure (a rejected
\* call included), progress is 0 and the connected flag is false.
C21_ProgressReset ==
    /\ (Running /\ TopF.pc \in HsPcs \cup FlPcs \cup {"sc_info_wait", "sc_info_header"})
       => m_progress = 0
    /\ (lastRet.op \in Operations /\ lastRet.result = "failure")
       => (lastRet.progress = 0 /\ ~lastRet.connected)
---------------------------------------------------------------------------
\* C22: a download is not atomic across files.  The disk changes only where
\* receiveFile saves a completely received file, and the step on which an
\* operation fails changes nothing on the disk: when the receive of file k
\* fails, nothing of file k is written, and each of the files 1..k-1 that the
\* download saved is still on the disk with the content it was saved with
\* (unless a later file of the same download had the same name).
SavedSet(saved) ==
    {saved[k] : k \in {j \in 1..Len(saved) :
                        \A l \in (j + 1)..Len(saved) : saved[l][1] # saved[j][1]}}

SaveStep ==
    /\ Running /\ TopF.op \in Downloads /\ TopF.pc \in {"rf_payload", "ch_payload"}
    /\ callsLeft' = callsLeft
    /\ \E e \in disk' :
          /\ disk' = {d \in disk : d[1] # e[1]} \cup {e}
          /\ IF Running'
             THEN /\ TopF'.filesOk = TopF.filesOk + 1
                  /\ TopF'.saved = Append(TopF.saved, e)
             ELSE lastRet'.filesOk = TopF.filesOk + 1 /\ lastRet'.result = "success"

FileFailStep ==
    /\ Running /\ TopF.op \in Downloads /\ callsLeft' = callsLeft
    /\ lastRet' # lastRet /\ lastRet'.result = "failure"

C22_FilesKeptOnFailure ==
    [][/\ disk' # disk => SaveStep
       /\ FileFailStep => /\ disk' = disk
                          /\ SavedSet(TopF.saved) \subseteq disk'
                          /\ Len(TopF.saved) = lastRet'.filesOk
                          /\ lastRet'.step = "file" => TopF.i = lastRet'.filesOk]_vars

C22_Witness ==
    /\ lastRet.op \in Downloads /\ lastRet.result = "failure" /\ lastRet.step = "file"
    /\ lastRet.filesOk = 1 /\ lastRet.flCount = DevFileCount
    /\ Cardinality(disk) = 1
---------------------------------------------------------------------------
\* C25: startDownload called while the connected flag is false emits the
\* error 'Not connected to device' and does nothing else: the port is not
\* touched (not opened, closed, read or written), no handshake wait begins,
\* and status, progress and the connected flag are what they were.
RejectedStartDownload ==
    /\ callsLeft' = callsLeft - 1 /\ call'.op = "startDownload"
    /\ ~m_isConnected

C25_RejectedDownloadInert ==
    [][RejectedStartDownload
       => /\ events' = Append(IF Running THEN events ELSE <<>>,
                              Ev("errorOccurred", Msg("Not connected to device", "", <<>>)))
          /\ UNCHANGED <<portOpen, rx, tx, serialError, disk>>
          /\ UNCHANGED <<m_status, m_progress, m_isConnected>>
          /\ Len(stack') = Len(stack) /\ ~ioTouched'
          /\ lastRet'.op = "startDownload" /\ lastRet'.result = "failure"]_vars

\* the rejected call found the progress of an earlier upload and left it
C25_Witness ==
    /\ call.op = "startDownload" /\ lastRet.op = "startDownload"
    /\ lastRet.result = "failure" /\ lastRet.step = "connect"
    /\ HasError("Not connected to device")
    /\ m_progress = 100 /\ ~m_isConnected
---------------------------------------------------------------------------
\* C26: in receiveFile a chunk is accepted (acknowledged and appended) only
\* if its chunkSize field is between 1 and 512, equals the payload length
\* less the four bytes of the chunk's fields, and does not carry the file
\* past its declared size; an accepted chunk appends exactly chunkSize bytes.
ChunkAccepted ==
    /\ ReadStepAt("ch_payload")
    /\ (IF Running' THEN TopF'.acks ELSE lastRet'.acks) = TopF.acks + 1

DeclaredChunkSize == StreamU(TopF.wData, 2, 2)

C26_ChunkSizeChecked ==
    [][ChunkAccepted
       => /\ DeclaredChunkSize \in 1..USB_CHUNK_SIZE
          /\ TopF.header.length = 4 + DeclaredChunkSize
          /\ Len(TopF.fileData) + DeclaredChunkSize <= ToInt32(TopF.fileSize)
          /\ Running' => Len(TopF'.fileData) = Len(TopF.fileData) + DeclaredChunkSize]_vars
---------------------------------------------------------------------------
\* C27: a complete, checksum-valid packet whose payload is shorter than the
\* fixed layout of its command (Handshake 5 bytes, FileList 1 + 64 * count,
\* file info 69, chunk 4) fails the step that read it: a Nack is written, no
\* Ack, and the step does not go on as if the packet had been accepted.
FixedLayout(pc, data) ==
    CASE pc = "hs_payload" -> 5
      [] pc = "fl_payload" -> 1 + NAME_SIZE * (IF data = <<>> THEN 0 ELSE data[1])
      [] pc = "rf_payload" -> 1 + 4 + NAME_SIZE
      [] pc = "ch_payload" -> 4

ShortPayloadStep ==
    /\ Running /\ TopF.pc \in PayloadPcs /\ ReadStepAt(TopF.pc) /\ PayloadGood
    /\ Len(TopF.wData) < FixedLayout(TopF.pc, TopF.wData)

C27_ShortPayloadRejected ==
    [][ShortPayloadStep
       => /\ (IF Running' THEN TopF'.acks ELSE lastRet'.acks) = TopF.acks
          /\ (IF Running' THEN TopF'.nacks ELSE lastRet'.nacks) = TopF.nacks + 1
          /\ TopF.pc # "hs_payload" => ~Running' /\ lastRet'.result = "failure"
          /\ TopF.pc = "hs_payload" => Running' /\ TopF'.pc \in HsPcs /\ ~TopF'.hsRet]_vars
---------------------------------------------------------------------------
\* C29: whenever no host call is executing, the connected flag is true only
\* if the serial port is open.
C29_ConnectedMeansOpen == ~Running => (m_isConnected => portOpen)

---------------------------------------------------------------------------
\* C30: success and error are exclusive within an operation: a download that
\* ended with downloadComplete, and an upload that ended with the success
\* status, emitted no errorOccurred between its start and its completion.
C30_SuccessWithoutErrors ==
    (lastRet.op \in Operations /\ lastRet.result = "success") => lastRet.errs = 0
---------------------------------------------------------------------------
\* C28: the handshake resynchronises.  When the device has sent, without
\* delay and on a line that stays up, at most a packet that the handshake
\* loop ignores (a header with a bad magic, or a valid packet of another
\* command, with its payload) and then the complete well-formed Handshake,
\* the handshake does not fail.
IgnoredTraffic == {"none", "badmagic", "wrongcmd"}

HandshakeWasSent ==
    /\ dev.mode = "send" /\ dev.inOp /\ dev.stage # "hs" /\ dev.fault \in IgnoredTraffic
    /\ latesLeft = MaxLate
    /\ portOpen /\ ~serialError /\ TopF.cancelAt < 0

HandshakeFails ==
    /\ Running /\ TopF.op \in Downloads /\ TopF.pc \in HsPcs
    /\ callsLeft' = callsLeft
    /\ ~Running' /\ lastRet'.result = "failure" /\ lastRet'.step = "handshake"

C28_HandshakeResync == [][HandshakeFails => ~HandshakeWasSent]_vars
---------------------------------------------------------------------------
\* C24: Ack/Nack accounting of the receive side.  The step that accepts a
\* packet (a complete payload with the right checksum, and for a chunk the
\* expected number) writes exactly one Ack and nothing else; the step that
\* rejects a header or a payload in receiveFileList or receiveFile writes
\* exactly one Nack and no Ack; a header that the handshake loop ignores is
\* answered with nothing; and a download that succeeds has written
\* 2 + (files + chunks accepted) Acks.
RecvStep ==
    /\ Running /\ TopF.op \in Downloads
    /\ TopF.pc \in (HeaderPcs \cup PayloadPcs) /\ ReadStepAt(TopF.pc)

HeaderGood ==
    /\ Len(TopF.wData) = HEADER_SIZE /\ isValid(ParseHeader(TopF.wData))
    /\ ParseHeader(TopF.wData).command =
           (IF TopF.pc = "hs_header" THEN USB_PROTO_CMD_HANDSHAKE
            ELSE ExpectedCommand(TopF.pc))

PacketAccepted ==
    /\ TopF.pc \in PayloadPcs /\ PayloadGood
    /\ TopF.pc = "ch_payload" => StreamU(TopF.wData, 0, 2) = TopF.chunkNumber

PacketRejected ==
    \/ TopF.pc \in {"fl_header", "rf_header", "ch_header"} /\ ~HeaderGood
    \/ TopF.pc \in {"fl_payload", "rf_payload", "ch_payload"} /\ ~PacketAccepted

HeaderIgnored == TopF.pc = "hs_header" /\ ~HeaderGood

Written == SubSeq(tx', Len(tx) + 1, Len(tx'))
AcksAfter == IF Running' THEN TopF'.acks ELSE lastRet'.acks
NacksAfter == IF Running' THEN TopF'.nacks ELSE lastRet'.nacks
AcksIn(packets) == Cardinality({k \in 1..Len(packets) : packets[k] = AckPacket})

AckTotal ==
    (~Running' /\ lastRet'.result = "success")
    => /\ lastRet'.acks = 2 + lastRet'.filesOk + lastRet'.chunksOk
       /\ AcksIn(tx') = lastRet'.acks

\* the rule, given the number of Nacks that answer a rejection
Accounting(nacksDue) ==
    RecvStep
    => /\ Len(tx') >= Len(tx) /\ SubSeq(tx', 1, Len(tx)) = tx
       /\ PacketAccepted
          => Written = <<AckPacket>> /\ AcksAfter = TopF.acks + 1
                                     /\ NacksAfter = TopF.nacks
       /\ PacketRejected
          => Written = [k \in 1..nacksDue |-> NackPacket]
             /\ AcksAfter = TopF.acks /\ NacksAfter = TopF.nacks + nacksDue
       /\ HeaderIgnored
          => Written = <<>> /\ AcksAfter = TopF.acks /\ NacksAfter = TopF.nacks
       /\ (~PacketAccepted /\ ~PacketRejected) => AcksAfter = TopF.acks
       /\ AckTotal

\* as stated: every rejection is answered with one Nack
C24_AckNackAccounting == [][Accounting(1)]_vars

\* C24, amended: a rejection is answered with one Nack while the port is
\* open; once the port was closed under the operation (disconnectFromDevice
\* delivered during a read) the rejection writes nothing.
C24_AckNackWhileOpen == [][Accounting(IF portOpen THEN 1 ELSE 0)]_vars

\* a download failed at a chunk of its second file with the port open: six Acks
\* (handshake, list, two file infos, two chunks) and the Nack of the rejection
C24_Witness ==
    /\ lastRet.op \in Downloads /\ lastRet.result = "failure" /\ lastRet.step = "file"
    /\ lastRet.cancelAt < 0
    /\ lastRet.filesOk = 1 /\ lastRet.chunksOk = 2 /\ lastRet.nacks = 1
    /\ lastRet.acks = 2 + 2 + lastRet.chunksOk
    /\ tx # <<>> /\ tx[Len(tx)] = NackPacket /\ AcksIn(tx) = lastRet.acks
---------------------------------------------------------------------------
\* C23: no operation blocks for ever.  While the host's thread runs and the
\* clock advances, every operation in progress returns, and so does every
\* receiveFileList, every receiveFile (one per file index) and every
\* sendConfigFile within it: with a silent device, with a device that stops
\* in the middle of a packet, and with a device that streams in-order chunks
\* without data (the chunk count leaves the 16 bits of the chunk number and
\* the next chunk is rejected).
\* a step of the host's thread is possible: one of the guards of the steps of
\* waitForData, of readData and of what follows their return holds
HostCanRun ==
    \/ WaitActive /\ portOpen
    \/ WaitActive /\ ~portOpen
    \/ InWait /\ ~WaitActive
    \/ ReadActive /\ portOpen /\ rx # <<>>
    \/ ReadActive /\ portOpen /\ rx = <<>> /\ ~serialError
    \/ ReadFinished /\ TopF.pc \in HeaderPcs \cup PayloadPcs

InFileList == Running /\ TopF.pc \in FlPcs
InFile(k) == Running /\ TopF.pc \in RfPcs /\ TopF.i = k
InSendConfig == Running /\ TopF.pc \in ScPcs

C23_EveryOperationReturns ==
    /\ [](Running => HostCanRun)
    /\ Running ~> ~Running
    /\ InFileList ~> ~InFileList
    /\ \A k \in 0..(DevFileCount - 1) : InFile(k) ~> ~InFile(k)
    /\ InSendConfig ~> ~InSendConfig

\* the device stopped in the middle of a chunk: the read gave up after
\* USB_TIMEOUT_MS and the download returned
C23_Witness ==
    /\ lastRet.op \in Downloads /\ lastRet.result = "failure" /\ lastRet.step = "file"
    /\ lastRet.cancelAt < 0 /\ lastRet.time >= USB_TIMEOUT_MS
    /\ HasError("Incomplete chunk data") /\ ~serialError

\* the stream was cut off by the chunk count that no 16-bit number equals
StreamCutOff ==
    /\ lastRet.op = "receiveResults" /\ lastRet.result = "failure" /\ lastRet.step = "file"
    /\ lastRet.chunksOk = 65536
    /\ \E k \in 1..Len(events) :
          /\ events[k].msg.text = "Chunk number mismatch (expected %1, got %2)"
          /\ events[k].msg.nums = <<65536, 0>>

\* C31: chunk numbering agrees with the 16-bit field on the wire for every
\* file size: the chunks of an in-order sender, numbered in 16 bits, are
\* accepted by the receiver one after the other, also beyond the 65536th (the
\* expected index is taken modulo 2^16); none of them is rejected, with a
\* chunk number mismatch or otherwise.
C31_InOrderChunksAccepted ==
    /\ codec.error = ""
    /\ codec.pc = "receive"
          => StreamU(codec.packet, HEADER_SIZE + 0, 2) = codec.receiver.chunkNumber % 65536

\* the accumulated byte count len has reached the declared size v, a quint32
\* held as its top bit and its low 31 bits (no sequence has 2^31 elements)
ReachedDeclared(len, v) == v.hi = 0 /\ len >= v.lo

\* C32: for every declared size of the u32 range receiveFile saves the file
\* and returns success only after the accumulated byte count has reached the
\* declared size; a declared size of 2^31 or more does not end the chunk loop
\* at once with an empty file saved.
C32_SavedAfterDeclaredSize ==
    [][\A d \in disk' \ disk :
          /\ Running /\ TopF.pc \in {"rf_payload", "ch_payload"}
          /\ ReachedDeclared(Len(d[2]), Declared)]_vars
====
